---- MODULE Spec2Model ----
(***************************************************************************)
(* A model of the run/response orchestration core of the code-interpreter  *)
(* relay: the poll loop of ResponsesClient.wait_on_response, the retry     *)
(* decorator retry_with_exponential_backoff, the normaliser                *)
(* ResponsesClient.parse_response_output and the chat / analyze request    *)
(* handlers of main.py.  Each component has its own variables and its own  *)
(* specification; a component's specification leaves the other             *)
(* components' variables at their idle values.                             *)
(***************************************************************************)
EXTENDS Integers, Sequences, FiniteSets, TLC

VARIABLES
    \* ResponsesClient.wait_on_response
    w_pc, w_status, w_obj, w_clock, w_start, w_polls, w_sleeps,
    w_timeout, w_poll, w_env,
    \* retry_with_exponential_backoff.wrapper
    r_pc, r_cfg, r_attempt, r_delay, r_err, r_wait, r_sleeps, r_calls,
    r_out, r_ret, r_last,
    \* ResponsesClient.parse_response_output
    p_pc, p_response, p_result,
    \* main.py: the chat and analyze_data handlers and the remote thread
    c_pc, c_kind, c_req_thread, c_thread, c_status, c_remote, c_last_error,
    c_msgs, c_polls, c_seen, c_resp,
    \* ResponsesClient.__init__ and the methods of the constructed object
    k_pc, k_client, k_model, k_self, k_calls,
    \* file_controller.download_container_file and ContainerFileService.fetch
    d_pc, d_file_id, d_info, d_data, d_remote, d_err, d_calls, d_resp,
    \* two concurrent chat requests on the event loop of the process
    t_pc, t_status, t_remote, t_env, t_polls, t_loop,
    \* several calls of one function wrapped by retry_with_exponential_backoff
    s_cfg, s_pc, s_attempt, s_delay, s_done, s_slept,
    \* assistant_manager.get_or_create_assistant over the start-ups of the app
    a_pc, a_db, a_id, a_remote, a_creates, a_starts

waitVars == <<w_pc, w_status, w_obj, w_clock, w_start, w_polls, w_sleeps,
              w_timeout, w_poll, w_env>>
retryVars == <<r_pc, r_cfg, r_attempt, r_delay, r_err, r_wait, r_sleeps,
               r_calls, r_out, r_ret, r_last>>
parseVars == <<p_pc, p_response, p_result>>
chatVars == <<c_pc, c_kind, c_req_thread, c_thread, c_status, c_remote,
              c_last_error, c_msgs, c_polls, c_seen, c_resp>>
clientVars == <<k_pc, k_client, k_model, k_self, k_calls>>
fileVars ==
    <<d_pc, d_file_id, d_info, d_data, d_remote, d_err, d_calls, d_resp>>
taskVars == <<t_pc, t_status, t_remote, t_env, t_polls, t_loop>>
callVars == <<s_cfg, s_pc, s_attempt, s_delay, s_done, s_slept>>
assistantVars == <<a_pc, a_db, a_id, a_remote, a_creates, a_starts>>
vars == <<waitVars, retryVars, parseVars, chatVars, clientVars, fileVars,
          taskVars, callVars, assistantVars>>
notWaitVars ==
    <<retryVars, parseVars, chatVars, clientVars, fileVars, taskVars,
      callVars, assistantVars>>
notRetryVars ==
    <<waitVars, parseVars, chatVars, clientVars, fileVars, taskVars,
      callVars, assistantVars>>
notParseVars ==
    <<waitVars, retryVars, chatVars, clientVars, fileVars, taskVars,
      callVars, assistantVars>>
notChatVars ==
    <<waitVars, retryVars, parseVars, clientVars, fileVars, taskVars,
      callVars, assistantVars>>
notClientVars ==
    <<waitVars, retryVars, parseVars, chatVars, fileVars, taskVars,
      callVars, assistantVars>>
notFileVars ==
    <<waitVars, retryVars, parseVars, chatVars, clientVars, taskVars,
      callVars, assistantVars>>
notTaskVars ==
    <<waitVars, retryVars, parseVars, chatVars, clientVars, fileVars,
      callVars, assistantVars>>
notCallVars ==
    <<waitVars, retryVars, parseVars, chatVars, clientVars, fileVars,
      taskVars, assistantVars>>
notAssistantVars ==
    <<waitVars, retryVars, parseVars, chatVars, clientVars, fileVars,
      taskVars, callVars>>

Max(a, b) == IF a >= b THEN a ELSE b

(***************************************************************************)
(* Run statuses (spec data model: Run.status).                             *)
(***************************************************************************)
NonTerminal == {"queued", "in_progress", "requires_action"}
Terminal == {"completed", "failed", "cancelled", "expired"}
Statuses == NonTerminal \cup Terminal

(***************************************************************************)
(* ResponsesClient.wait_on_response.  Time is counted in ticks of 50 ms.   *)
(* time.sleep(poll_interval) advances the clock by poll_interval; a        *)
(* retrieve call takes 0..MaxLatency ticks.  w_env is the behaviour of the *)
(* remote side during this wait: "stuck" answers every retrieve with a     *)
(* non-terminal status, "live" with any status, and "flaky" may also fail  *)
(* the retrieve call with an exception.                                    *)
(***************************************************************************)
MaxLatency == 1
PollIntervals == {1, 2}
Timeouts == {0, 3, 10}
Envs == {"stuck", "live", "flaky"}

\* conversation_client.py:52, the loop condition
KeepsPolling_AlsoFailed(status) ==
    status \in {"in_progress", "queued", "requires_action", "failed"}
KeepsPolling_NoRequiresAction(status) == status \in {"in_progress", "queued"}
KeepsPolling(status) == status \in {"in_progress", "queued", "requires_action"}

\* conversation_client.py:53, the deadline test
DeadlinePassed_Inclusive(now, start, timeout) == now - start >= timeout
DeadlinePassed(now, start, timeout) == now - start > timeout

RetrieveAnswers(env) ==
    IF env = "stuck" THEN NonTerminal ELSE Statuses

InitWait ==
    /\ w_pc = "check"
    /\ w_status \in Statuses
    /\ w_obj = "given"
    /\ w_clock = 0
    /\ w_start = 0
    /\ w_polls = 0
    /\ w_sleeps = 0
    /\ w_timeout \in Timeouts
    /\ w_poll \in PollIntervals
    /\ w_env \in Envs

\* lines 52-54 and 58-59: the loop test, the deadline test, the return
WaitCheck ==
    /\ w_pc = "check"
    /\ w_pc' = IF ~KeepsPolling(w_status) THEN "returned"
               ELSE IF DeadlinePassed(w_clock, w_start, w_timeout) THEN "timeout"
               ELSE "sleeping"
    /\ UNCHANGED <<w_status, w_obj, w_clock, w_start, w_polls, w_sleeps,
                   w_timeout, w_poll, w_env>>
    /\ UNCHANGED notWaitVars

\* line 55: time.sleep(poll_interval)
WaitSleep ==
    /\ w_pc = "sleeping"
    /\ w_clock' = w_clock + w_poll
    /\ w_sleeps' = w_sleeps + 1
    /\ w_pc' = "retrieving"
    /\ UNCHANGED <<w_status, w_obj, w_start, w_polls, w_timeout, w_poll, w_env>>
    /\ UNCHANGED notWaitVars

\* line 56: response = self.client.responses.retrieve(response.id)
WaitRetrieve ==
    /\ w_pc = "retrieving"
    /\ w_polls' = w_polls + 1
    /\ \E lat \in 0..MaxLatency : w_clock' = w_clock + lat
    /\ \/ /\ \E s \in RetrieveAnswers(w_env) : w_status' = s
          /\ w_obj' = "retrieved"
          /\ w_pc' = "check"
       \/ /\ w_env = "flaky"
          /\ w_pc' = "error"
          /\ UNCHANGED <<w_status, w_obj>>
    /\ UNCHANGED <<w_start, w_sleeps, w_timeout, w_poll, w_env>>
    /\ UNCHANGED notWaitVars

NextWait == WaitCheck \/ WaitSleep \/ WaitRetrieve

(***************************************************************************)
(* retry_with_exponential_backoff(max_retries, initial_delay,              *)
(* exponential_base, jitter).wrapper.  Durations are in milliseconds.      *)
(* An exception is modelled by the two features of its text that the       *)
(* wrapper reads: the rate-limit marker it contains and the retry hint it  *)
(* contains.  Hint forms: "ms" is 'try again in <n>ms'; "Caps_ms" is       *)
(* 'Try again in <n>ms' and "s" is 'try again in <n>s', which both contain *)
(* 'try again in' once lowercased and both miss the pattern                *)
(* r'try again in (\d+)ms' applied to the raw text.  The jitter parameter  *)
(* is never read by the code.  r_last is the outcome of the most recent    *)
(* attempt of the wrapped operation, r_out and r_ret what the wrapper      *)
(* itself raised or returned.                                              *)
(***************************************************************************)
MaxRetries == 3
InitialDelays == {1000, 2000}
Bases == {1, 2}
Markers == {"none", "rate_limit_exceeded", "RATE_LIMIT_EXCEEDED", "429"}
NoHint == [form |-> "none", n |-> 0]
Hints == {NoHint, [form |-> "ms", n |-> 500], [form |-> "ms", n |-> 5000],
          [form |-> "Caps_ms", n |-> 5000], [form |-> "s", n |-> 5]}
Errors == [marker : Markers, hint : Hints]
NoErr == [marker |-> "-", hint |-> NoHint]
Results == {"v1", "v2"}
NoOutcome == [kind |-> "none", err |-> NoErr, val |-> "-"]
RetryCfgs == [max_retries : 0..MaxRetries, initial_delay : InitialDelays,
              exponential_base : Bases]

\* str.lower() on the marker
LowerMarker(m) == IF m = "RATE_LIMIT_EXCEEDED" THEN "rate_limit_exceeded" ELSE m

\* retry_utils.py:34  'rate_limit_exceeded' in error_str.lower() or '429' in error_str
IsRateLimitError_Always(e) == TRUE
IsRateLimitError(e) ==
    LowerMarker(e.marker) = "rate_limit_exceeded" \/ e.marker = "429"

\* retry_utils.py:34-35  rate limit error and attempt < max_retries
ShouldRetry_Inclusive(e, attempt, max_retries) ==
    IsRateLimitError(e) /\ attempt <= max_retries
ShouldRetry_OneLess(e, attempt, max_retries) ==
    IsRateLimitError(e) /\ attempt + 1 < max_retries
ShouldRetry(e, attempt, max_retries) ==
    IsRateLimitError(e) /\ attempt < max_retries

\* retry_utils.py:38  'try again in' in error_str.lower()
ContainsTryAgain(e) == e.hint.form # "none"
\* retry_utils.py:42  re.search(r'try again in (\d+)ms', error_str)
PatternMatches(e) == e.hint.form = "ms"

\* retry_utils.py:37-47  wait_time
WaitTime_HintWins(e, delay) ==
    IF ContainsTryAgain(e) /\ PatternMatches(e) THEN e.hint.n ELSE delay
WaitTime(e, delay) ==
    IF ContainsTryAgain(e) /\ PatternMatches(e) THEN Max(e.hint.n, delay)
    ELSE delay

\* retry_utils.py:58  raise: the exception being handled; earlier is the
\* last_exception left by the attempt before
Reraise_Earlier(e, earlier) == IF earlier = NoErr THEN e ELSE earlier
Reraise(e, earlier) == e

\* retry_utils.py:54  delay *= exponential_base
NextDelay(delay, base) == delay * base

InitRetry ==
    /\ r_pc = "calling"
    /\ r_cfg \in RetryCfgs
    /\ r_attempt = 0
    /\ r_delay = r_cfg.initial_delay
    /\ r_err = NoErr
    /\ r_wait = 0
    /\ r_sleeps = <<>>
    /\ r_calls = 0
    /\ r_out = [kind |-> "none", err |-> NoErr]
    /\ r_ret = "-"
    /\ r_last = NoOutcome

\* lines 27-28: the attempt returns normally
RetryCallReturns ==
    /\ r_pc = "calling"
    /\ r_attempt <= r_cfg.max_retries
    /\ r_calls' = r_calls + 1
    /\ r_pc' = "returned"
    /\ r_out' = [kind |-> "returned", err |-> NoErr]
    /\ \E v \in Results :
         /\ r_last' = [kind |-> "returned", err |-> NoErr, val |-> v]
         /\ r_ret' = v
    /\ UNCHANGED <<r_cfg, r_attempt, r_delay, r_err, r_wait, r_sleeps>>
    /\ UNCHANGED notRetryVars

\* lines 27-58: the attempt raises e; the except clause up to the sleep or the raise
RetryCallRaises ==
    /\ r_pc = "calling"
    /\ r_attempt <= r_cfg.max_retries
    /\ r_calls' = r_calls + 1
    /\ \E e \in Errors :
         /\ r_err' = e
         /\ r_last' = [kind |-> "raised", err |-> e, val |-> "-"]
         /\ IF ShouldRetry(e, r_attempt, r_cfg.max_retries)
            THEN /\ r_wait' = WaitTime(e, r_delay)
                 /\ r_pc' = "sleeping"
                 /\ r_out' = r_out
            ELSE /\ r_wait' = r_wait
                 /\ r_pc' = "raised"
                 /\ r_out' = [kind |-> "raised", err |-> Reraise(e, r_err)]
    /\ UNCHANGED <<r_cfg, r_attempt, r_delay, r_sleeps, r_ret>>
    /\ UNCHANGED notRetryVars

\* lines 53-55: time.sleep(wait_time); delay *= exponential_base; continue
RetrySleep ==
    /\ r_pc = "sleeping"
    /\ r_sleeps' = Append(r_sleeps, r_wait)
    /\ r_delay' = NextDelay(r_delay, r_cfg.exponential_base)
    /\ r_attempt' = r_attempt + 1
    /\ r_pc' = "calling"
    /\ UNCHANGED <<r_cfg, r_err, r_wait, r_calls, r_out, r_ret, r_last>>
    /\ UNCHANGED notRetryVars

NextRetry == RetryCallReturns \/ RetryCallRaises \/ RetrySleep

(***************************************************************************)
(* ResponsesClient.parse_response_output.                                  *)
(*                                                                         *)
(* The raw result is a duck-typed object tree.  An attribute is modelled   *)
(* as a record [k, v]: k = "absent" when the object has no such attribute  *)
(* (hasattr is false, getattr yields its default), k = "none" when it is   *)
(* None, k = "val" when it holds v.  A string is a sequence of             *)
(* one-character strings.  Of the keys of an emitted annotation the model  *)
(* keeps type, file_id, filename, path, response_id and container_id;      *)
(* "text" and "mime_type" are copied by the code the same way as "path"    *)
(* and decide nothing.                                                     *)
(***************************************************************************)
AbsS == [k |-> "absent", v |-> <<>>]
NoneS == [k |-> "none", v |-> <<>>]
S(str) == [k |-> "val", v |-> str]

\* hasattr(obj, name)
HasAttr(a) == a.k # "absent"
\* getattr(obj, name, None)
GetAttr(a) == IF a.k = "absent" THEN NoneS ELSE a
\* bool(x) of a string or a list attribute
Truthy(a) == a.k = "val" /\ a.v # <<>>
\* x or y
Or(a, b) == IF Truthy(a) THEN a ELSE b

\* Objects that reference a file: the file_path / image_file / file / image
\* sub-object of a content item, an inline annotation, an output_files entry
EmptyRef == [type |-> "", file_id |-> AbsS, id |-> AbsS, filename |-> AbsS,
             path |-> AbsS, filepath |-> AbsS]
AbsR == [k |-> "absent", v |-> EmptyRef]
NoneR == [k |-> "none", v |-> EmptyRef]
R(ref) == [k |-> "val", v |-> ref]

AbsL == [k |-> "absent", v |-> <<>>]
NoneL == [k |-> "none", v |-> <<>>]
L(seq) == [k |-> "val", v |-> seq]

\* item.text: absent, None, a bare string ("str") or an object ("obj")
\* whose attribute value is the field value
AbsT == [k |-> "absent", value |-> AbsS]
StrT(str) == [k |-> "str", value |-> S(str)]
ObjT(val) == [k |-> "obj", value |-> val]

EmptyItem == [type |-> "", text |-> AbsT, output_text |-> AbsS, value |-> AbsS,
              file_path |-> AbsR, image_file |-> AbsR, file |-> AbsR,
              image |-> AbsR, annotations |-> AbsL]

\* Strings of the inputs
Str_a == <<"a">>
Str_b == <<"b">>
Str_c == <<"c">>
Str_d == <<"d">>
Str_t == <<"t">>
Str_z == <<"z">>
Fid_f1 == <<"f", "1">>
Fid_png == <<"f", "2", ".", "p", "n", "g">>
Fid_PNG == <<"f", "3", ".", "P", "N", "G">>
Fid_jpeg == <<"f", "4", ".", "j", "p", "e", "g">>
Fid_pngx == <<"f", "5", ".", "p", "n", "g", "x">>
Fid_f6 == <<"f", "6">>
Fid_f7 == <<"f", "7">>
Name_plot == <<"p", "l", "o", "t", ".", "p", "n", "g">>
Path_csv == <<"/", "o", "/", "a", ".", "c", "s", "v">>
Cid_1 == <<"c", "1">>
Cid_2 == <<"c", "2">>
Resp_id == <<"r", "1">>

\* Content items
Item_text_a ==
    [EmptyItem EXCEPT !.type = "text", !.text = ObjT(S(Str_a)), !.value = S(Str_z)]
Item_summary_b ==
    [EmptyItem EXCEPT !.type = "summary_text", !.value = S(Str_b)]
Item_refusal_c ==
    [EmptyItem EXCEPT !.type = "refusal", !.text = ObjT(NoneS),
                      !.output_text = S(Str_c)]
Item_text_empty ==
    [EmptyItem EXCEPT !.type = "text", !.text = ObjT(S(<<>>)), !.value = NoneS,
                      !.annotations = NoneL]
Item_cited_d ==
    [EmptyItem EXCEPT !.type = "output_text", !.text = StrT(Str_d),
        !.annotations = L(<<
            [EmptyRef EXCEPT !.type = "container_file_citation",
                             !.file_id = S(Fid_png), !.filename = S(Name_plot)],
            [EmptyRef EXCEPT !.type = "file_citation", !.file_id = NoneS,
                             !.id = S(Fid_PNG)],
            [EmptyRef EXCEPT !.type = "file_path", !.filename = S(Name_plot)],
            [EmptyRef EXCEPT !.type = "url_citation", !.file_id = S(Fid_f1)],
            [EmptyRef EXCEPT !.type = "file_path", !.file_id = S(Fid_pngx),
                             !.filepath = S(Path_csv)],
            [EmptyRef EXCEPT !.type = "file_citation", !.file_id = S(Fid_jpeg)]
        >>)]
Item_image_f1 ==
    [EmptyItem EXCEPT !.type = "image_file",
        !.image_file = R([EmptyRef EXCEPT !.file_id = S(Fid_f1),
                                          !.filename = S(Name_plot)])]
Item_image_no_file_id ==
    [EmptyItem EXCEPT !.type = "image_file",
        !.image_file = R([EmptyRef EXCEPT !.filename = S(Name_plot)])]
Item_image_ref_none ==
    [EmptyItem EXCEPT !.type = "image_file", !.image_file = NoneR]
Item_file_path_null_id ==
    [EmptyItem EXCEPT !.type = "file_path",
        !.file_path = R([EmptyRef EXCEPT !.file_id = NoneS, !.path = S(Path_csv)])]
Item_file_path_no_ref ==
    [EmptyItem EXCEPT !.type = "file_path", !.text = StrT(Str_z)]
Item_output_file_f6 ==
    [EmptyItem EXCEPT !.type = "output_file",
        !.file = R([EmptyRef EXCEPT !.id = S(Fid_f6), !.filepath = S(Path_csv)])]
Item_output_image_no_id ==
    [EmptyItem EXCEPT !.type = "output_image",
        !.image = R([EmptyRef EXCEPT !.filename = S(Name_plot)])]
Item_unknown ==
    [EmptyItem EXCEPT !.type = "tool_call", !.text = ObjT(S(Str_z)),
                      !.value = S(Str_z)]

\* Block contents: the content attribute of an output block
Content_texts == L(<<Item_text_a, Item_summary_b>>)
Content_cited == L(<<Item_cited_d>>)
Content_image == L(<<Item_image_f1, Item_refusal_c>>)
Content_files == L(<<Item_output_file_f6, Item_unknown, Item_text_empty,
                     Item_file_path_no_ref>>)
Content_no_file_id == L(<<Item_text_a, Item_image_no_file_id>>)
Content_null_file_id == L(<<Item_file_path_null_id>>)
Content_image_no_id == L(<<Item_output_image_no_id, Item_summary_b>>)
Content_ref_none == L(<<Item_image_ref_none>>)

MaxBlocks == 2
Blocks ==
    [container_id : {AbsS, NoneS, S(Cid_1)}, content : {Content_cited, Content_image}]
    \cup [container_id : {AbsS, S(Cid_2)}, content : {Content_texts}]
    \cup [container_id : {AbsS},
          content : {Content_files, Content_no_file_id, Content_null_file_id,
                     Content_image_no_id, Content_ref_none, AbsL, NoneL}]

RECURSIVE SeqsUpTo(_, _)
SeqsUpTo(set, n) ==
    IF n = 0 THEN {<<>>}
    ELSE LET shorter == SeqsUpTo(set, n - 1)
         IN shorter \cup {Append(q, x) : q \in shorter, x \in set}

File_f7 == [EmptyRef EXCEPT !.id = S(Fid_f7), !.filename = S(Name_plot)]
File_f1 == [EmptyRef EXCEPT !.id = NoneS, !.file_id = S(Fid_f1), !.path = S(Path_csv)]
File_no_id == [EmptyRef EXCEPT !.filename = S(Name_plot)]

Responses ==
    [id : {S(Resp_id)},
     output_text : {AbsS, S(<<>>), S(Str_t)},
     output : {AbsL, NoneL} \cup {L(q) : q \in SeqsUpTo(Blocks, MaxBlocks)},
     output_files : {AbsL, NoneL, L(<<>>), L(<<File_f7, File_no_id, File_f1>>)}]

TextTypes == {"text", "output_text", "summary_text", "refusal"}
CitationTypes == {"container_file_citation", "file_citation", "file_path"}
ImageSuffixes ==
    {<<".", "p", "n", "g">>, <<".", "j", "p", "g">>, <<".", "j", "p", "e", "g">>,
     <<".", "g", "i", "f">>, <<".", "s", "v", "g">>, <<".", "w", "e", "b", "p">>}

\* str.endswith(suffix)
EndsWith(str, suffix) ==
    /\ Len(str) >= Len(suffix)
    /\ SubSeq(str, Len(str) - Len(suffix) + 1, Len(str)) = suffix

\* str.lower(), on the letters the inputs use
LowerChar(ch) ==
    CASE ch = "P" -> "p" [] ch = "N" -> "n" [] ch = "G" -> "g"
      [] ch = "J" -> "j" [] ch = "E" -> "e" [] OTHER -> ch
LowerStr(str) == [i \in 1..Len(str) |-> LowerChar(str[i])]

\* conversation_client.py:148  the kind of an inline citation
CitationKind(fid) ==
    IF \E suf \in ImageSuffixes : EndsWith(fid, suf)
    THEN "image_file" ELSE "file_path"

\* one entry of the annotations list
Annotation(type, file_id, filename, path, rid, cid) ==
    [type |-> type, file_id |-> file_id, filename |-> filename, path |-> path,
     response_id |-> rid, container_id |-> cid]

\* "".join(text_chunks)
RECURSIVE Join(_)
Join(chunks) == IF chunks = <<>> THEN <<>> ELSE Head(chunks) \o Join(Tail(chunks))

\* line 73 / line 92: text_chunks.append(val)
AddChunk_Prepend(chunks, val) == <<val>> \o chunks
AddChunk(chunks, val) == Append(chunks, val)

\* lines 72-73: the top-level output_text, when present and non-empty
TopLevelChunks_Dropped(response) == <<>>
TopLevelChunks(response) ==
    IF HasAttr(response.output_text) /\ Truthy(response.output_text)
    THEN <<response.output_text.v>> ELSE <<>>

\* lines 87-90: the value of a textual item
TextValue(item) ==
    LET txt_truthy == \/ item.text.k = "obj"
                      \/ item.text.k = "str" /\ item.text.value.v # <<>>
        val == IF txt_truthy /\ item.text.k = "obj"
               THEN GetAttr(item.text.value) ELSE NoneS
    IN IF Truthy(val) THEN val
       ELSE Or(GetAttr(item.output_text), GetAttr(item.value))

\* lines 94-116: a file_path / image_file item reads ref.file_id directly,
\* which raises AttributeError when ref is None or has no file_id
StrictRef(acc, type, ref, rid, cid) ==
    IF ref.k = "none" \/ ~HasAttr(ref.v.file_id)
    THEN [acc EXCEPT !.raised = TRUE]
    ELSE [acc EXCEPT !.anns = Append(@,
            Annotation(type, ref.v.file_id,
                       Or(GetAttr(ref.v.filename), GetAttr(ref.v.path)),
                       Or(GetAttr(ref.v.path), GetAttr(ref.v.filepath)),
                       rid, cid))]

\* lines 117-139: an output_file / file / output_image / image item takes
\* ref.file_id when the attribute exists and getattr(ref, "id", None) otherwise
LenientRef(acc, type, ref, rid, cid) ==
    [acc EXCEPT !.anns = Append(@,
        Annotation(type,
                   IF HasAttr(ref.v.file_id) THEN ref.v.file_id
                   ELSE GetAttr(ref.v.id),
                   Or(GetAttr(ref.v.filename), GetAttr(ref.v.path)),
                   Or(GetAttr(ref.v.path), GetAttr(ref.v.filepath)),
                   rid, cid))]

\* lines 141-156: the inline annotations of one item
RECURSIVE CitationAnns(_, _, _, _)
CitationAnns(ann_list, i, rid, cid) ==
    IF i > Len(ann_list) THEN <<>>
    ELSE LET ann == ann_list[i]
             fid == Or(GetAttr(ann.file_id), GetAttr(ann.id))
             here == IF ann.type \in CitationTypes /\ Truthy(fid)
                     THEN <<Annotation(CitationKind(fid.v), fid,
                                       GetAttr(ann.filename),
                                       Or(GetAttr(ann.path), GetAttr(ann.filepath)),
                                       rid, cid)>>
                     ELSE <<>>
         IN here \o CitationAnns(ann_list, i + 1, rid, cid)

\* lines 84-156: the body of the loop over the items of a block
ItemStep(item, rid, cid, acc) ==
    LET val == TextValue(item)
        a1 == IF item.type \in TextTypes /\ Truthy(val)
              THEN [acc EXCEPT !.chunks = AddChunk(@, val.v)] ELSE acc
        a2 == IF item.type = "file_path" /\ HasAttr(item.file_path)
              THEN StrictRef(a1, "file_path", item.file_path, rid, cid) ELSE a1
        a3 == IF item.type = "image_file" /\ HasAttr(item.image_file)
              THEN StrictRef(a2, "image_file", item.image_file, rid, cid) ELSE a2
        a4 == IF item.type \in {"output_file", "file"} /\ HasAttr(item.file)
              THEN LenientRef(a3, "file_path", item.file, rid, cid) ELSE a3
        a5 == IF item.type \in {"output_image", "image"} /\ HasAttr(item.image)
              THEN LenientRef(a4, "image_file", item.image, rid, cid) ELSE a4
        ann_list == IF Truthy(item.annotations) THEN item.annotations.v ELSE <<>>
    IN IF a5.raised THEN a5
       ELSE [a5 EXCEPT !.anns = @ \o CitationAnns(ann_list, 1, rid, cid)]

\* line 83: for item in content_list
RECURSIVE ParseItems(_, _, _, _, _)
ParseItems(items, i, rid, cid, acc) ==
    IF acc.raised \/ i > Len(items) THEN acc
    ELSE ParseItems(items, i + 1, rid, cid, ItemStep(items[i], rid, cid, acc))

\* line 79: current_container_id = getattr(block, "container_id", current_container_id)
TrackContainer(block, current) ==
    IF HasAttr(block.container_id) THEN block.container_id ELSE current

\* lines 77-156: for block in outputs.  getattr(block, "content", []) is []
\* for a block with no content attribute and None for a block whose content
\* is None; iterating None raises TypeError
RECURSIVE ParseBlocks(_, _, _, _)
ParseBlocks(blocks, i, rid, st) ==
    IF st.acc.raised \/ i > Len(blocks) THEN st
    ELSE LET block == blocks[i]
             cid == TrackContainer(block, st.cid)
             acc == IF block.content.k = "none"
                    THEN [st.acc EXCEPT !.raised = TRUE]
                    ELSE ParseItems(block.content.v, 1, rid, cid, st.acc)
         IN ParseBlocks(blocks, i + 1, rid, [acc |-> acc, cid |-> cid])

\* lines 158-172: the top-level output_files
RECURSIVE OutputFileAnns(_, _, _, _)
OutputFileAnns(files, i, rid, cid) ==
    IF i > Len(files) THEN <<>>
    ELSE LET f == files[i]
             fid == Or(GetAttr(f.id), GetAttr(f.file_id))
             here == IF Truthy(fid)
                     THEN <<Annotation("file_path", fid,
                                       Or(GetAttr(f.filename), GetAttr(f.path)),
                                       Or(GetAttr(f.path), GetAttr(f.filepath)),
                                       rid, cid)>>
                     ELSE <<>>
         IN here \o OutputFileAnns(files, i + 1, rid, cid)

\* lines 164-172: annotations.append(...) for the top-level output files, on
\* the list that already holds the annotations of the content blocks
ExtendAnns_Deduplicated(anns, more) ==
    anns \o SelectSeq(more, LAMBDA a :
                \A i \in 1..Len(anns) : anns[i].file_id # a.file_id)
ExtendAnns(anns, more) == anns \o more

NoResult == [raised |-> FALSE, text |-> <<>>, annotations |-> <<>>]
Raised == [raised |-> TRUE, text |-> <<>>, annotations |-> <<>>]

\* lines 65-66: text_chunks = [] and annotations = [], new lists in every
\* call; previous is what the call before returned
FreshLists_Kept(previous) ==
    [chunks |-> <<previous.text>>, anns |-> previous.annotations]
FreshLists(previous) == [chunks |-> <<>>, anns |-> <<>>]

\* lines 68-174, from the two lists of lines 65-66
ParseFrom(response, lists) ==
    LET rid == GetAttr(response.id)
        start == [acc |-> [raised |-> FALSE,
                           chunks |-> lists.chunks \o TopLevelChunks(response),
                           anns |-> lists.anns],
                  cid |-> NoneS]
        st == IF Truthy(response.output)
              THEN ParseBlocks(response.output.v, 1, rid, start) ELSE start
    IN IF st.acc.raised THEN Raised
       ELSE IF response.output_files.k = "none" THEN Raised
       ELSE [raised |-> FALSE,
             text |-> Join(st.acc.chunks),
             annotations |->
                 ExtendAnns(st.acc.anns,
                            IF HasAttr(response.output_files)
                            THEN OutputFileAnns(response.output_files.v, 1, rid,
                                                st.cid)
                            ELSE <<>>)]

\* lines 61-174
ParseResponseOutput(response) == ParseFrom(response, FreshLists(NoResult))

InitParse ==
    /\ p_pc = "ready"
    /\ p_response \in Responses
    /\ p_result = NoResult

\* one call of parse_response_output on the raw result
ParseCall ==
    /\ p_pc = "ready"
    /\ p_result' = ParseResponseOutput(p_response)
    /\ p_pc' = "done"
    /\ UNCHANGED p_response
    /\ UNCHANGED notParseVars

\* a second call of parse_response_output on the same raw result
ParseCallAgain ==
    /\ p_pc = "done"
    /\ p_result' = ParseFrom(p_response, FreshLists(p_result))
    /\ p_pc' = "again"
    /\ UNCHANGED p_response
    /\ UNCHANGED notParseVars

NextParse == ParseCall \/ ParseCallAgain

IdleParse ==
    /\ p_pc = "idle"
    /\ p_response = [id |-> AbsS, output_text |-> AbsS, output |-> AbsL,
                     output_files |-> AbsL]
    /\ p_result = NoResult

(***************************************************************************)
(* main.py: the chat and analyze_data request handlers, wait_on_run,       *)
(* process_message_content and the remote thread they talk to.  c_remote   *)
(* is the status the remote side holds for the run, c_status the status of *)
(* the run object the handler holds; c_msgs are the messages of the thread *)
(* in use, newest first, as messages.list returns them.  c_polls counts    *)
(* the retrieve calls of wait_on_run up to MaxPolls and stays there;       *)
(* c_seen lists the statuses those retrieve calls returned, up to MaxPolls *)
(* of them.                                                                *)
(***************************************************************************)
MaxPolls == 3
Kinds == {"chat", "analyze"}
RunErrors == {"server_error", "rate_limit_exceeded"}

\* Content items of a thread message: a text item holds text.value and
\* text.annotations, an image_file item holds image_file.file_id.  An
\* annotation of a text item holds type, text, file_path.file_id and, as
\* "info", what client.files.retrieve(file_id) answers: "fails" when the
\* call raises, else the filename attribute of the file object
TextItem(value, annotations) ==
    [type |-> "text", value |-> value, annotations |-> annotations,
     file_id |-> <<>>]
ImageItem(file_id) ==
    [type |-> "image_file", value |-> <<>>, annotations |-> <<>>,
     file_id |-> file_id]
TextAnnotation(type, text, file_id, info) ==
    [type |-> type, text |-> text, file_id |-> file_id, info |-> info]

Str_result_42 == <<"R", "e", "s", "u", "l", "t", ":", " ", "4", "2">>
Str_see == <<"S", "e", "e", " ">>
Str_link == <<"[", "1", "]">>
Str_prompt == <<"h", "i">>
Str_old == <<"o", "l", "d">>
Name_PLOT == <<"P", "L", "O", "T", ".", "P", "N", "G">>
Content_result_42 == <<TextItem(Str_result_42, <<>>), ImageItem(Fid_f1)>>
Content_linked ==
    <<TextItem(Str_see, <<TextAnnotation("file_path", Str_link, Fid_f6,
                                         [k |-> "ok", filename |-> S(Name_PLOT)]),
                          TextAnnotation("file_citation", Str_link, Fid_f7,
                                         [k |-> "ok", filename |-> S(Path_csv)]),
                          TextAnnotation("file_path", Str_link, Fid_f7,
                                         [k |-> "ok", filename |-> AbsS])>>),
      TextItem(Str_a, <<TextAnnotation("file_path", Str_link, Fid_png,
                                       [k |-> "fails", filename |-> AbsS])>>)>>
AnswerContents == {Content_result_42, Content_linked}

Message(role, text, run) ==
    [role |-> role, text |-> text, run |-> run,
     content |-> CASE text = "prompt" -> <<TextItem(Str_prompt, <<>>)>>
                   [] text = "old prompt" -> <<TextItem(Str_prompt, <<>>)>>
                   [] OTHER -> <<TextItem(Str_old, <<>>)>>]
\* what a thread supplied by the caller already holds
OldMessages == <<Message("assistant", "old answer", "old"),
                 Message("user", "old prompt", "none")>>

\* main.py:127-148: the annotations of one text item
RECURSIVE FilePathAnnotations(_, _)
FilePathAnnotations(anns, i) ==
    IF i > Len(anns) THEN <<>>
    ELSE LET a == anns[i]
             filename == IF HasAttr(a.info.filename) THEN a.info.filename.v
                         ELSE <<>>
             is_image == \E suf \in ImageSuffixes :
                             EndsWith(LowerStr(filename), suf)
             here == IF a.type # "file_path" THEN <<>>
                     ELSE IF a.info.k = "fails"
                     THEN <<[type |-> "file_path", file_id |-> a.file_id,
                             text |-> a.text]>>
                     ELSE <<[type |-> IF is_image THEN "image_file"
                                      ELSE "file_path",
                             file_id |-> a.file_id, text |-> a.text,
                             filename |-> filename]>>
         IN here \o FilePathAnnotations(anns, i + 1)

\* main.py:118-155  process_message_content(content)
RECURSIVE ProcessMessageContent(_, _, _)
ProcessMessageContent(content, i, acc) ==
    IF i > Len(content) THEN acc
    ELSE LET item == content[i]
             next ==
                 IF item.type = "text"
                 THEN [text_content |-> acc.text_content \o item.value,
                       annotations |-> acc.annotations
                           \o FilePathAnnotations(item.annotations, 1)]
                 ELSE IF item.type = "image_file"
                 THEN [acc EXCEPT !.annotations = Append(@,
                          [type |-> "image_file", file_id |-> item.file_id])]
                 ELSE acc
         IN ProcessMessageContent(content, i + 1, next)

\* main.py:246-254: the files list; annotation.get("filename", "")
FilesOf(annotations) ==
    [i \in 1..Len(annotations) |->
        [file_id |-> annotations[i].file_id, type |-> annotations[i].type,
         filename |-> IF "filename" \in DOMAIN annotations[i]
                      THEN annotations[i].filename ELSE <<>>]]

NoResponse == [kind |-> "none", code |-> 0, thread |-> "none", text |-> "",
               role |-> "none", run |-> "none", detail |-> <<>>,
               message |-> <<>>, annotations |-> <<>>, files |-> <<>>]
HttpError(code, detail) ==
    [NoResponse EXCEPT !.kind = "error", !.code = code, !.detail = detail]
\* The text of an error detail is kept as the sequence of its pieces
\* chat, lines 213-232: the HTTPException raised for a failed run
ChatRunFailed_HelpOnly(last_error) ==
    IF last_error = "server_error"
    THEN HttpError(500, <<"OpenAI server error occurred. ...">>)
    ELSE HttpError(500, <<"Run failed: ", last_error>>)
ChatRunFailed(last_error) ==
    IF last_error = "server_error"
    THEN HttpError(500, <<"OpenAI server error occurred. ...", "Details: ",
                          last_error>>)
    ELSE HttpError(500, <<"Run failed: ", last_error>>)
\* chat, lines 267-269: except HTTPException: raise
ChatReraise(exc) == exc

\* analyze_data, lines 412-423: the HTTPException raised for a failed run;
\* 'rate_limit' in str(last_error).lower()
AnalyzeRunFailed(last_error) ==
    IF last_error = "rate_limit_exceeded"
    THEN HttpError(429, <<"Rate limit exceeded. Please wait a moment and try again.">>)
    ELSE HttpError(500, <<"Analysis failed: ", last_error>>)
\* str(HTTPException): the status code, ": ", the detail
StrOfHttpError(exc) ==
    <<IF exc.code = 429 THEN "429" ELSE "500", ": ">> \o exc.detail
\* analyze_data, lines 458-462: except Exception catches the HTTPException
\* raised inside the try block and raises HTTP 500 in its place
AnalyzeReraise(exc) ==
    HttpError(500, <<"Analysis failed: ">> \o StrOfHttpError(exc))

\* chat, lines 242-265; analyze_data, lines 434-456: the response built from
\* the message read; text, role and run say which message that was
ThreadResponse_FilesOnly(thread, msg) ==
    LET out == ProcessMessageContent(msg.content, 1,
                   [text_content |-> <<>>, annotations |-> <<>>])
    IN [NoResponse EXCEPT !.kind = "ok", !.code = 200, !.thread = thread,
                          !.text = msg.text, !.role = msg.role, !.run = msg.run,
                          !.message = out.text_content,
                          !.files = FilesOf(out.annotations)]
ThreadResponse(thread, msg) ==
    LET out == ProcessMessageContent(msg.content, 1,
                   [text_content |-> <<>>, annotations |-> <<>>])
    IN [NoResponse EXCEPT !.kind = "ok", !.code = 200, !.thread = thread,
                          !.text = msg.text, !.role = msg.role, !.run = msg.run,
                          !.message = out.text_content,
                          !.annotations = out.annotations,
                          !.files = FilesOf(out.annotations)]

\* main.py:110  while run.status in ["queued", "in_progress"]
RunKeepsPolling(status) == status \in {"queued", "in_progress"}

\* the remote run's life: the statuses that can follow a status
RemoteSuccessors(status) ==
    CASE status = "queued" -> {"in_progress", "cancelled", "expired", "failed"}
      [] status = "in_progress" ->
            {"completed", "failed", "cancelled", "expired", "requires_action"}
      [] status = "requires_action" -> {"in_progress", "cancelled", "expired"}
      [] OTHER -> {}

InitChat ==
    /\ c_pc = "start"
    /\ c_kind \in Kinds
    /\ c_req_thread \in {"none", "t_old"}
    /\ c_thread = "none"
    /\ c_status = "none"
    /\ c_remote = "none"
    /\ c_last_error = "none"
    /\ c_msgs = <<>>
    /\ c_polls = 0
    /\ c_seen = <<>>
    /\ c_resp = NoResponse

\* chat, lines 178-184: the supplied thread, or a new one;
\* analyze_data, lines 376-377: always a new thread
ChatResolveThread ==
    /\ c_pc = "start"
    /\ c_thread' = IF c_kind = "chat" /\ c_req_thread # "none"
                   THEN c_req_thread ELSE "t_new"
    /\ c_msgs' = IF c_thread' = "t_old" THEN OldMessages ELSE <<>>
    /\ c_pc' = "thread"
    /\ UNCHANGED <<c_kind, c_req_thread, c_status, c_remote, c_last_error,
                   c_polls, c_seen, c_resp>>
    /\ UNCHANGED notChatVars

\* chat, lines 188-192; analyze_data, lines 389-394: messages.create
ChatAddMessage ==
    /\ c_pc = "thread"
    /\ c_msgs' = <<Message("user", "prompt", "none")>> \o c_msgs
    /\ c_pc' = "message"
    /\ UNCHANGED <<c_kind, c_req_thread, c_thread, c_status, c_remote,
                   c_last_error, c_polls, c_seen, c_resp>>
    /\ UNCHANGED notChatVars

\* chat, lines 201-205; analyze_data, lines 399-403: runs.create
ChatCreateRun ==
    /\ c_pc = "message"
    /\ c_remote' = "queued"
    /\ c_status' = "queued"
    /\ c_pc' = "waiting"
    /\ UNCHANGED <<c_kind, c_req_thread, c_thread, c_last_error, c_msgs,
                   c_polls, c_seen, c_resp>>
    /\ UNCHANGED notChatVars

\* the remote side moves the run on; a completed run has put its assistant
\* message on the thread, a failed run carries a last_error
RemoteAdvance ==
    /\ c_remote \in NonTerminal
    /\ \E s \in RemoteSuccessors(c_remote) :
         /\ c_remote' = s
         /\ IF s = "completed"
            THEN \E content \in AnswerContents :
                   c_msgs' = <<[Message("assistant", "answer", "this")
                                  EXCEPT !.content = content]>> \o c_msgs
            ELSE c_msgs' = c_msgs
         /\ IF s = "failed" THEN c_last_error' \in RunErrors
            ELSE c_last_error' = c_last_error
    /\ UNCHANGED <<c_pc, c_kind, c_req_thread, c_thread, c_status, c_polls,
                   c_seen, c_resp>>
    /\ UNCHANGED notChatVars

\* wait_on_run, lines 110-114: the loop test holds and the run is retrieved
WaitOnRunPoll ==
    /\ c_pc = "waiting"
    /\ RunKeepsPolling(c_status)
    /\ c_status' = c_remote
    /\ c_polls' = IF c_polls < MaxPolls THEN c_polls + 1 ELSE c_polls
    /\ c_seen' = IF Len(c_seen) < MaxPolls THEN Append(c_seen, c_remote)
                 ELSE c_seen
    /\ c_pc' = "sleeping"
    /\ UNCHANGED <<c_kind, c_req_thread, c_thread, c_remote,
                   c_last_error, c_msgs, c_resp>>
    /\ UNCHANGED notChatVars

\* wait_on_run, line 115: time.sleep(0.5), then back to the loop test
WaitOnRunSleep ==
    /\ c_pc = "sleeping"
    /\ c_pc' = "waiting"
    /\ UNCHANGED <<c_kind, c_req_thread, c_thread, c_status, c_remote,
                   c_last_error, c_msgs, c_polls, c_seen, c_resp>>
    /\ UNCHANGED notChatVars

\* wait_on_run, lines 110 and 116: the loop ends and the run is returned
WaitOnRunReturn ==
    /\ c_pc = "waiting"
    /\ ~RunKeepsPolling(c_status)
    /\ c_pc' = "waited"
    /\ UNCHANGED <<c_kind, c_req_thread, c_thread, c_status, c_remote,
                   c_last_error, c_msgs, c_polls, c_seen, c_resp>>
    /\ UNCHANGED notChatVars

\* chat, lines 213-232 and 267-269: a failed run ends the request with
\* HTTP 500 carrying last_error.  analyze_data, lines 412-423 and 458-462:
\* the HTTPException raised for a failed run (429 for a rate limit, 500
\* otherwise) is caught by the handler's own "except Exception" and raised
\* again as HTTP 500.
ChatCheckFailed ==
    /\ c_pc = "waited"
    /\ IF c_status = "failed"
       THEN /\ c_resp' = IF c_kind = "chat"
                          THEN ChatReraise(ChatRunFailed(c_last_error))
                          ELSE AnalyzeReraise(AnalyzeRunFailed(c_last_error))
            /\ c_pc' = "done"
       ELSE /\ c_resp' = c_resp
            /\ c_pc' = "reading"
    /\ UNCHANGED <<c_kind, c_req_thread, c_thread, c_status, c_remote,
                   c_last_error, c_msgs, c_polls, c_seen>>
    /\ UNCHANGED notChatVars

\* chat, lines 236-265: the newest message of the thread is the response;
\* analyze_data, lines 427-456: the same, after the check that its role is
\* "assistant" (HTTP 500 otherwise)
ChatReadMessages ==
    /\ c_pc = "reading"
    /\ c_resp' = IF c_kind = "analyze" /\ c_msgs[1].role # "assistant"
                 THEN AnalyzeReraise(
                          HttpError(500, <<"No response from assistant">>))
                 ELSE ThreadResponse(c_thread, c_msgs[1])
    /\ c_pc' = "done"
    /\ UNCHANGED <<c_kind, c_req_thread, c_thread, c_status, c_remote,
                   c_last_error, c_msgs, c_polls, c_seen>>
    /\ UNCHANGED notChatVars

NextChat ==
    \/ ChatResolveThread \/ ChatAddMessage \/ ChatCreateRun \/ RemoteAdvance
    \/ WaitOnRunPoll \/ WaitOnRunSleep \/ WaitOnRunReturn \/ ChatCheckFailed
    \/ ChatReadMessages

IdleChat ==
    /\ c_pc = "idle" /\ c_kind = "chat" /\ c_req_thread = "none"
    /\ c_thread = "none" /\ c_status = "none" /\ c_remote = "none"
    /\ c_last_error = "none" /\ c_msgs = <<>> /\ c_polls = 0
    /\ c_seen = <<>> /\ c_resp = NoResponse

(***************************************************************************)
(* Idle values and the specifications.                                     *)
(***************************************************************************)
(***************************************************************************)
(* ResponsesClient.__init__ and the object it produces.  k_client is the   *)
(* remote client handed to the constructor, k_self the ResponsesClient the *)
(* caller holds once the constructor has returned, k_calls the methods     *)
(* invoked on it so far.                                                   *)
(***************************************************************************)
MaxCalls == 4
RemoteClients == [conversations : BOOLEAN]
Models == {"gpt-4.1", "gpt-4o"}
Methods == {"create_conversation", "run_response", "wait_on_response"}
NoSelf == [made |-> FALSE, client |-> [conversations |-> FALSE],
           default_model |-> "none"]

\* conversation_client.py:20  hasattr(self.client, "conversations")
SupportsConversations_Always(client) == TRUE
SupportsConversations(client) == client.conversations

InitClient ==
    /\ k_pc = "new"
    /\ k_client \in RemoteClients
    /\ k_model \in Models
    /\ k_self = NoSelf
    /\ k_calls = <<>>

\* lines 17-24: ResponsesClient(client, default_model); the RuntimeError of
\* line 21 leaves the caller without an object
Construct ==
    /\ k_pc = "new"
    /\ IF SupportsConversations(k_client)
       THEN /\ k_self' = [made |-> TRUE, client |-> k_client,
                          default_model |-> k_model]
            /\ k_pc' = "constructed"
       ELSE /\ k_self' = k_self
            /\ k_pc' = "raised"
    /\ UNCHANGED <<k_client, k_model, k_calls>>
    /\ UNCHANGED notClientVars

\* lines 26-59: a method is invoked on the object the caller holds
InvokeMethod ==
    /\ k_self.made
    /\ Len(k_calls) < MaxCalls
    /\ \E m \in Methods : k_calls' = Append(k_calls, m)
    /\ UNCHANGED <<k_pc, k_client, k_model, k_self>>
    /\ UNCHANGED notClientVars

NextClient == Construct \/ InvokeMethod

IdleClient ==
    /\ k_pc = "idle" /\ k_client = [conversations |-> FALSE]
    /\ k_model = "none" /\ k_self = NoSelf /\ k_calls = <<>>

(***************************************************************************)
(* file_controller.download_container_file and ContainerFileService.fetch. *)
(* d_info is the metadata object and d_data the content object the remote  *)
(* side answers with; d_remote says which of the two lookups fails, d_err   *)
(* is the text of the error it fails with, d_calls the number of calls made *)
(* so far of each lookup.  Attributes and strings are modelled as for       *)
(* parse_response_output.                                                   *)
(***************************************************************************)
Path_chart == S(<<"/", "s", "a", "n", "d", "b", "o", "x", "/", "o", "u", "t", "/", "c", "h", "a", "r", "t", ".", "p", "n", "g">>)
Path_dir == S(<<"/", "s", "a", "n", "d", "b", "o", "x", "/", "o", "u", "t", "/">>)
Path_bare == S(<<"d", "a", "t", "a", ".", "C", "S", "V">>)
Path_noext == S(<<"/", "o", "/", "n", "o", "e", "x", "t">>)
Name_report == S(<<"r", "e", "p", "o", "r", "t", ".", "c", "s", "v">>)
Name_hidden == S(<<".", "p", "n", "g">>)
Name_json == S(<<"n", ".", "j", "s", "o", "n">>)
Name_blob == S(<<"b", "l", "o", "b", ".", "b", "i", "n">>)
FileIds == {<<"c", "f", "i", "l", "e", "_", "1">>, <<"f", ".", "P", "N", "G">>}
FileInfos ==
    [path : {AbsS, NoneS, S(<<>>), Path_chart, Path_dir, Path_bare, Path_noext},
     filename : {AbsS, NoneS, S(<<>>), Name_report, Name_hidden},
     name : {AbsS, Name_json}]
FileDatas == [filename : {AbsS, S(<<>>), Name_blob}]
RemoteFaults == {"none", "metadata", "content"}
RemoteErrorTexts == {"No such file", "Error code: 404", "rate_limit_exceeded 429"}

\* the index of the last occurrence of ch in str, 0 when there is none
LastIndexOf(str, ch) ==
    LET at == {i \in 1..Len(str) : str[i] = ch}
    IN IF at = {} THEN 0 ELSE CHOOSE i \in at : \A j \in at : j <= i

\* os.path.basename(path)
Basename(path) == SubSeq(path, LastIndexOf(path, "/") + 1, Len(path))

\* posixpath.splitext(name)[1]: the extension from the last dot of the base
\* name, none when only dots precede it
Extension(name) ==
    LET sep == LastIndexOf(name, "/")
        dot == LastIndexOf(name, ".")
    IN IF dot > sep /\ \E i \in (sep + 1)..(dot - 1) : name[i] # "."
       THEN SubSeq(name, dot, Len(name)) ELSE <<>>

\* mimetypes.types_map, on the extensions the inputs use
TypesMap(ext) ==
    CASE ext = <<".", "p", "n", "g">> -> "image/png"
      [] ext = <<".", "c", "s", "v">> -> "text/csv"
      [] ext = <<".", "j", "s", "o", "n">> -> "application/json"
      [] ext = <<".", "b", "i", "n">> -> "application/octet-stream"
      [] OTHER -> "none"

\* str.lower(), on the letters the inputs use
LowerExtChar(ch) ==
    CASE ch = "C" -> "c" [] ch = "S" -> "s" [] ch = "V" -> "v"
      [] ch = "P" -> "p" [] ch = "N" -> "n" [] ch = "G" -> "g" [] OTHER -> ch
LowerExt(ext) == [i \in 1..Len(ext) |-> LowerExtChar(ext[i])]

\* mimetypes.guess_type(filename)[0]: the extension as it is, then lowercased
GuessType(name) ==
    IF TypesMap(Extension(name)) # "none" THEN TypesMap(Extension(name))
    ELSE TypesMap(LowerExt(Extension(name)))

\* file_controller.py:38-45: the filename, in priority order
PickFilename_FilenameFirst(file_id, info, data) ==
    LET path == GetAttr(info.path)
        f1 == Or(GetAttr(info.filename), GetAttr(info.name))
        f2 == IF Truthy(f1) THEN f1
              ELSE IF Truthy(path) THEN S(Basename(path.v)) ELSE NoneS
        f3 == IF Truthy(f2) THEN f2 ELSE GetAttr(data.filename)
    IN IF Truthy(f3) THEN f3.v ELSE file_id
PickFilename(file_id, info, data) ==
    LET path == GetAttr(info.path)
        f1 == IF Truthy(path) THEN S(Basename(path.v)) ELSE NoneS
        f2 == IF Truthy(f1) THEN f1
              ELSE Or(GetAttr(info.filename), GetAttr(info.name))
        f3 == IF Truthy(f2) THEN f2 ELSE GetAttr(data.filename)
    IN IF Truthy(f3) THEN f3.v ELSE file_id

\* file_controller.py:48-49
ContentType(filename) ==
    IF GuessType(filename) # "none" THEN GuessType(filename)
    ELSE "application/octet-stream"

NoDownload == [kind |-> "none", code |-> 0, filename |-> <<>>,
               content_type |-> "none", detail |-> <<>>]
\* file_controller.py:51-58
FileResponse(filename) ==
    [NoDownload EXCEPT !.kind = "ok", !.code = 200, !.filename = filename,
                       !.content_type = ContentType(filename)]
\* file_controller.py:60-63
FileError(err) ==
    [NoDownload EXCEPT !.kind = "error", !.code = 500,
                       !.detail = <<"File retrieval failed: ", err>>]

InitFile ==
    /\ d_pc = "start"
    /\ d_file_id \in FileIds
    /\ d_info \in FileInfos
    /\ d_data \in FileDatas
    /\ d_remote \in RemoteFaults
    /\ d_err \in RemoteErrorTexts
    /\ d_calls = [metadata |-> 0, content |-> 0]
    /\ d_resp = NoDownload

\* container_file_service.py:20-23: containers.files.retrieve; an error of
\* the call reaches the except clause of file_controller.py:60-63
FetchMetadata ==
    /\ d_pc = "start"
    /\ IF d_remote = "metadata"
       THEN d_resp' = FileError(d_err) /\ d_pc' = "done"
       ELSE d_resp' = d_resp /\ d_pc' = "metadata"
    /\ d_calls' = [d_calls EXCEPT !.metadata = @ + 1]
    /\ UNCHANGED <<d_file_id, d_info, d_data, d_remote, d_err>>
    /\ UNCHANGED notFileVars

\* container_file_service.py:25-31: containers.files.content.retrieve
FetchContent ==
    /\ d_pc = "metadata"
    /\ IF d_remote = "content"
       THEN d_resp' = FileError(d_err) /\ d_pc' = "done"
       ELSE d_resp' = d_resp /\ d_pc' = "fetched"
    /\ d_calls' = [d_calls EXCEPT !.content = @ + 1]
    /\ UNCHANGED <<d_file_id, d_info, d_data, d_remote, d_err>>
    /\ UNCHANGED notFileVars

\* file_controller.py:37-58
SendFile ==
    /\ d_pc = "fetched"
    /\ d_resp' = FileResponse(PickFilename(d_file_id, d_info, d_data))
    /\ d_pc' = "done"
    /\ UNCHANGED <<d_file_id, d_info, d_data, d_remote, d_err, d_calls>>
    /\ UNCHANGED notFileVars

NextFile == FetchMetadata \/ FetchContent \/ SendFile

IdleFile ==
    /\ d_pc = "idle" /\ d_file_id = <<>>
    /\ d_info = [path |-> AbsS, filename |-> AbsS, name |-> AbsS]
    /\ d_data = [filename |-> AbsS]
    /\ d_remote = "none" /\ d_err = "none"
    /\ d_calls = [metadata |-> 0, content |-> 0] /\ d_resp = NoDownload

(***************************************************************************)
(* Two chat requests, A and B, served by one process.  chat is declared    *)
(* "async def" (main.py:171-172), so the server runs it as a coroutine on  *)
(* the one event loop of the process (uvicorn.run(app), main.py:531-533),  *)
(* and a coroutine keeps the loop until it awaits or returns.  chat and    *)
(* wait_on_run contain no await: the remote calls are synchronous and the  *)
(* pause between polls is time.sleep(0.5).  t_loop is the request whose    *)
(* coroutine holds the loop, "free" when none does.                        *)
(***************************************************************************)
Tasks == {"A", "B"}
TaskEnvs == {"stuck", "live"}

\* the statuses the remote side may move the run of a request to; the run
\* of a "stuck" request never leaves queued / in_progress
TaskSuccessors(env, status) ==
    IF env = "stuck"
    THEN (IF status = "queued" THEN {"in_progress"} ELSE {})
    ELSE RemoteSuccessors(status)

InitTask ==
    /\ t_pc = [t \in Tasks |-> "arrived"]
    /\ t_status = [t \in Tasks |-> "none"]
    /\ t_remote = [t \in Tasks |-> "none"]
    /\ t_env \in [Tasks -> TaskEnvs]
    /\ t_polls = [t \in Tasks |-> 0]
    /\ t_loop = "free"

\* main.py:171-210: the event loop starts the handler of a request that
\* has arrived; the handler runs up to wait_on_run without giving up the loop
TaskStart(t) ==
    /\ t_loop = "free"
    /\ t_pc[t] = "arrived"
    /\ t_loop' = t
    /\ t_pc' = [t_pc EXCEPT ![t] = "polling"]
    /\ t_status' = [t_status EXCEPT ![t] = "queued"]
    /\ t_remote' = [t_remote EXCEPT ![t] = "queued"]
    /\ UNCHANGED <<t_env, t_polls>>
    /\ UNCHANGED notTaskVars

\* the remote side moves the run of a request on
TaskRemoteAdvance(t) ==
    /\ \E st \in TaskSuccessors(t_env[t], t_remote[t]) :
         t_remote' = [t_remote EXCEPT ![t] = st]
    /\ UNCHANGED <<t_pc, t_status, t_env, t_polls, t_loop>>
    /\ UNCHANGED notTaskVars

\* main.py:110-114: the loop test holds and the run is retrieved
TaskRetrieve(t) ==
    /\ t_loop = t
    /\ t_pc[t] = "polling"
    /\ RunKeepsPolling(t_status[t])
    /\ t_status' = [t_status EXCEPT ![t] = t_remote[t]]
    /\ t_polls' = [t_polls EXCEPT ![t] = IF @ < MaxPolls THEN @ + 1 ELSE @]
    /\ t_pc' = [t_pc EXCEPT ![t] = "sleeping"]
    /\ UNCHANGED <<t_remote, t_env, t_loop>>
    /\ UNCHANGED notTaskVars

\* main.py:115: time.sleep(0.5) blocks the thread of the event loop and
\* returns; the loop stays with the sleeping request
TaskSleep(t) ==
    /\ t_loop = t
    /\ t_pc[t] = "sleeping"
    /\ t_pc' = [t_pc EXCEPT ![t] = "polling"]
    /\ UNCHANGED <<t_status, t_remote, t_env, t_polls, t_loop>>
    /\ UNCHANGED notTaskVars

\* main.py:116 and 211-265: the loop test fails, the handler finishes and
\* the response is sent; the event loop is free again
TaskFinish(t) ==
    /\ t_loop = t
    /\ t_pc[t] = "polling"
    /\ ~RunKeepsPolling(t_status[t])
    /\ t_pc' = [t_pc EXCEPT ![t] = "done"]
    /\ t_loop' = "free"
    /\ UNCHANGED <<t_status, t_remote, t_env, t_polls>>
    /\ UNCHANGED notTaskVars

NextTask ==
    \E t \in Tasks :
        \/ TaskStart(t) \/ TaskRemoteAdvance(t) \/ TaskRetrieve(t)
        \/ TaskSleep(t) \/ TaskFinish(t)

IdleTask ==
    /\ t_pc = [t \in Tasks |-> "idle"]
    /\ t_status = [t \in Tasks |-> "none"]
    /\ t_remote = [t \in Tasks |-> "none"]
    /\ t_env = [t \in Tasks |-> "live"]
    /\ t_polls = [t \in Tasks |-> 0]
    /\ t_loop = "free"

(***************************************************************************)
(* Several calls of one function wrapped by retry_with_exponential_backoff.*)
(* The decorator arguments max_retries, initial_delay and exponential_base *)
(* live in the closure that all calls of the wrapped function share        *)
(* (s_cfg); delay and attempt are locals of wrapper, one of each per call. *)
(* A caller is a thread that calls the wrapped function up to              *)
(* MaxInvocations times, one call after the other; the calls of the two    *)
(* callers interleave.  While a caller is between calls, s_attempt and     *)
(* s_delay hold what its last call left.  s_slept says that some call of   *)
(* the caller has slept.                                                   *)
(***************************************************************************)
MaxInvocations == 2
Callers == {"X", "Y"}
CallErrors == {[marker |-> "429", hint |-> NoHint],
               [marker |-> "none", hint |-> NoHint]}

\* retry_utils.py:23  delay = initial_delay, in the frame of the new call;
\* left_over is what the call before left in its own frame
FreshDelay_LeftOver(initial_delay, left_over) == left_over
FreshDelay(initial_delay, left_over) == initial_delay

InitCall ==
    /\ s_cfg \in RetryCfgs
    /\ s_pc = [c \in Callers |-> "idle"]
    /\ s_attempt = [c \in Callers |-> 0]
    /\ s_delay = [c \in Callers |-> 0]
    /\ s_done = [c \in Callers |-> 0]
    /\ s_slept = [c \in Callers |-> FALSE]

\* lines 22-26: a call enters wrapper
CallEnter(c) ==
    /\ s_pc[c] = "idle"
    /\ s_done[c] < MaxInvocations
    /\ s_pc' = [s_pc EXCEPT ![c] = "calling"]
    /\ s_attempt' = [s_attempt EXCEPT ![c] = 0]
    /\ s_delay' = [s_delay EXCEPT ![c] = FreshDelay(s_cfg.initial_delay, @)]
    /\ UNCHANGED <<s_cfg, s_done, s_slept>>
    /\ UNCHANGED notCallVars

\* lines 27-28: the attempt returns and so does the call
CallReturns(c) ==
    /\ s_pc[c] = "calling"
    /\ s_pc' = [s_pc EXCEPT ![c] = "idle"]
    /\ s_done' = [s_done EXCEPT ![c] = @ + 1]
    /\ UNCHANGED <<s_cfg, s_attempt, s_delay, s_slept>>
    /\ UNCHANGED notCallVars

\* lines 29-58: the attempt raises; the call goes to sleep or raises
CallRaises(c) ==
    /\ s_pc[c] = "calling"
    /\ \E e \in CallErrors :
         IF ShouldRetry(e, s_attempt[c], s_cfg.max_retries)
         THEN /\ s_pc' = [s_pc EXCEPT ![c] = "sleeping"]
              /\ s_done' = s_done
         ELSE /\ s_pc' = [s_pc EXCEPT ![c] = "idle"]
              /\ s_done' = [s_done EXCEPT ![c] = @ + 1]
    /\ UNCHANGED <<s_cfg, s_attempt, s_delay, s_slept>>
    /\ UNCHANGED notCallVars

\* lines 53-55 and 26: sleep, delay *= exponential_base, the next attempt
CallSleep(c) ==
    /\ s_pc[c] = "sleeping"
    /\ s_delay' = [s_delay EXCEPT ![c] = NextDelay(@, s_cfg.exponential_base)]
    /\ s_attempt' = [s_attempt EXCEPT ![c] = @ + 1]
    /\ s_slept' = [s_slept EXCEPT ![c] = TRUE]
    /\ s_pc' = [s_pc EXCEPT ![c] = "calling"]
    /\ UNCHANGED <<s_cfg, s_done>>
    /\ UNCHANGED notCallVars

NextCall ==
    \E c \in Callers :
        CallEnter(c) \/ CallReturns(c) \/ CallRaises(c) \/ CallSleep(c)

IdleCall ==
    /\ s_cfg = [max_retries |-> 0, initial_delay |-> 1000, exponential_base |-> 1]
    /\ s_pc = [c \in Callers |-> "off"]
    /\ s_attempt = [c \in Callers |-> 0]
    /\ s_delay = [c \in Callers |-> 0]
    /\ s_done = [c \in Callers |-> 0]
    /\ s_slept = [c \in Callers |-> FALSE]

(***************************************************************************)
(* assistant_manager.get_or_create_assistant, called once by every         *)
(* start-up of the application (main.py:36-44).  a_db is the value stored  *)
(* under the key "assistant_id" in the configuration collection, 0 when    *)
(* there is no such document; assistant ids are 1, 2, ...  a_remote is the *)
(* set of assistants that exist on the remote side, a_id the local         *)
(* assistant_id, a_creates the number of assistants.create calls made so   *)
(* far and a_starts the number of start-ups, at most MaxStarts.            *)
(***************************************************************************)
MaxStarts == 4

InitAssistant ==
    /\ a_pc = "down"
    /\ a_db = 0
    /\ a_id = 0
    /\ a_remote = {}
    /\ a_creates = 0
    /\ a_starts = 0

\* main.py:43: the lifespan of the application calls get_or_create_assistant
AssistantStart ==
    /\ a_pc = "down"
    /\ a_starts < MaxStarts
    /\ a_starts' = a_starts + 1
    /\ a_pc' = "reading"
    /\ UNCHANGED <<a_db, a_id, a_remote, a_creates>>
    /\ UNCHANGED notAssistantVars

\* assistant_manager.py:20-22 and database.py:49-53: get_app_config, then
\* "if assistant_id"
AssistantRead ==
    /\ a_pc = "reading"
    /\ a_id' = a_db
    /\ a_pc' = IF a_db # 0 THEN "verifying" ELSE "creating"
    /\ UNCHANGED <<a_db, a_remote, a_creates, a_starts>>
    /\ UNCHANGED notAssistantVars

\* assistant_manager.py:24-29: assistants.retrieve returns and the stored id
\* is returned, or it raises (the assistant is gone, or the call fails for
\* any other reason) and the function goes on to create
AssistantVerify ==
    /\ a_pc = "verifying"
    /\ \E call_fails \in BOOLEAN :
         a_pc' = IF a_id \in a_remote /\ ~call_fails THEN "up" ELSE "creating"
    /\ UNCHANGED <<a_db, a_id, a_remote, a_creates, a_starts>>
    /\ UNCHANGED notAssistantVars

\* assistant_manager.py:33-41: assistants.create
AssistantCreate ==
    /\ a_pc = "creating"
    /\ a_creates' = a_creates + 1
    /\ a_id' = a_creates + 1
    /\ a_remote' = a_remote \cup {a_creates + 1}
    /\ a_pc' = "created"
    /\ UNCHANGED <<a_db, a_starts>>
    /\ UNCHANGED notAssistantVars

\* assistant_manager.py:44-47 and database.py:55-62: set_app_config (an
\* upsert), then return assistant.id
AssistantSave ==
    /\ a_pc = "created"
    /\ a_db' = a_id
    /\ a_pc' = "up"
    /\ UNCHANGED <<a_id, a_remote, a_creates, a_starts>>
    /\ UNCHANGED notAssistantVars

\* the application is shut down
AssistantStop ==
    /\ a_pc = "up"
    /\ a_pc' = "down"
    /\ UNCHANGED <<a_db, a_id, a_remote, a_creates, a_starts>>
    /\ UNCHANGED notAssistantVars

\* an assistant is deleted on the remote side
AssistantDeleted ==
    /\ \E gone \in a_remote : a_remote' = a_remote \ {gone}
    /\ UNCHANGED <<a_pc, a_db, a_id, a_creates, a_starts>>
    /\ UNCHANGED notAssistantVars

NextAssistant ==
    \/ AssistantStart \/ AssistantRead \/ AssistantVerify \/ AssistantCreate
    \/ AssistantSave \/ AssistantStop \/ AssistantDeleted

IdleAssistant ==
    /\ a_pc = "off" /\ a_db = 0 /\ a_id = 0 /\ a_remote = {}
    /\ a_creates = 0 /\ a_starts = 0

IdleWait ==
    /\ w_pc = "idle" /\ w_status = "completed" /\ w_obj = "given"
    /\ w_clock = 0 /\ w_start = 0 /\ w_polls = 0 /\ w_sleeps = 0
    /\ w_timeout = 0 /\ w_poll = 1 /\ w_env = "live"

IdleRetry ==
    /\ r_pc = "idle"
    /\ r_cfg = [max_retries |-> 0, initial_delay |-> 1000, exponential_base |-> 1]
    /\ r_attempt = 0 /\ r_delay = 0 /\ r_err = NoErr /\ r_wait = 0
    /\ r_sleeps = <<>> /\ r_calls = 0 /\ r_out = [kind |-> "none", err |-> NoErr]
    /\ r_ret = "-" /\ r_last = NoOutcome

InitOfWait == InitWait /\ IdleRetry /\ IdleParse /\ IdleChat /\ IdleClient
    /\ IdleFile /\ IdleTask /\ IdleCall /\ IdleAssistant
SpecWait == InitOfWait /\ [][NextWait]_vars
\* sleep and retrieve are blocking calls that return: the loop keeps stepping
SpecWaitFair == SpecWait /\ WF_vars(NextWait)

InitOfRetry == IdleWait /\ InitRetry /\ IdleParse /\ IdleChat /\ IdleClient
    /\ IdleFile /\ IdleTask /\ IdleCall /\ IdleAssistant
SpecRetry == InitOfRetry /\ [][NextRetry]_vars

InitOfParse == IdleWait /\ IdleRetry /\ InitParse /\ IdleChat /\ IdleClient
    /\ IdleFile /\ IdleTask /\ IdleCall /\ IdleAssistant
SpecParse == InitOfParse /\ [][NextParse]_vars

InitOfChat == IdleWait /\ IdleRetry /\ IdleParse /\ InitChat /\ IdleClient
    /\ IdleFile /\ IdleTask /\ IdleCall /\ IdleAssistant
SpecChat == InitOfChat /\ [][NextChat]_vars
\* the handler keeps running: every remote call and every sleep returns.
\* Nothing obliges the remote side to move a run on.
SpecChatFair ==
    SpecChat /\ WF_vars(ChatResolveThread) /\ WF_vars(ChatAddMessage)
        /\ WF_vars(ChatCreateRun) /\ WF_vars(WaitOnRunPoll)
        /\ WF_vars(WaitOnRunSleep) /\ WF_vars(WaitOnRunReturn)
        /\ WF_vars(ChatCheckFailed) /\ WF_vars(ChatReadMessages)

InitOfClient == IdleWait /\ IdleRetry /\ IdleParse /\ IdleChat /\ InitClient
    /\ IdleFile /\ IdleTask /\ IdleCall /\ IdleAssistant
SpecClient == InitOfClient /\ [][NextClient]_vars

InitOfFile ==
    IdleWait /\ IdleRetry /\ IdleParse /\ IdleChat /\ IdleClient /\ InitFile
    /\ IdleTask /\ IdleCall /\ IdleAssistant
SpecFile == InitOfFile /\ [][NextFile]_vars

InitOfTask ==
    IdleWait /\ IdleRetry /\ IdleParse /\ IdleChat /\ IdleClient /\ IdleFile
    /\ InitTask /\ IdleCall /\ IdleAssistant
SpecTask == InitOfTask /\ [][NextTask]_vars

InitOfCall ==
    IdleWait /\ IdleRetry /\ IdleParse /\ IdleChat /\ IdleClient /\ IdleFile
    /\ IdleTask /\ InitCall /\ IdleAssistant
SpecCall == InitOfCall /\ [][NextCall]_vars

InitOfAssistant ==
    IdleWait /\ IdleRetry /\ IdleParse /\ IdleChat /\ IdleClient /\ IdleFile
    /\ IdleTask /\ IdleCall /\ InitAssistant
SpecAssistant == InitOfAssistant /\ [][NextAssistant]_vars
\* the event loop runs what is ready, blocking calls return, and the remote
\* side keeps moving every run that can still move
SpecTaskFair ==
    SpecTask /\ \A t \in Tasks :
        /\ WF_vars(TaskStart(t)) /\ WF_vars(TaskRemoteAdvance(t))
        /\ WF_vars(TaskRetrieve(t)) /\ WF_vars(TaskSleep(t))
        /\ WF_vars(TaskFinish(t))

(***************************************************************************)
(* Properties of wait_on_response.                                         *)
(***************************************************************************)
\* A run that never leaves {queued, in_progress, requires_action}
StuckRun == w_env = "stuck" /\ w_status \in NonTerminal
\* poll_interval = 0.1 s and timeout = 0.5 s, in ticks of 50 ms
PollScenario == w_poll = 2 /\ w_timeout = 10
Elapsed == w_clock - w_start

C1_ScenarioOutcome ==
    (StuckRun /\ PollScenario) =>
        /\ w_pc # "returned"
        /\ w_pc = "timeout" =>
             /\ w_polls >= 3
             /\ Elapsed > w_timeout
             /\ Elapsed <= w_timeout + w_poll + MaxLatency

\* C1: with poll_interval 0.1 s and timeout 0.5 s a run that stays
\* non-terminal is never returned, and the wait ends in TimeoutError once
\* more than 0.5 s (and at most one further poll) have elapsed, after at
\* least 3 retrieve calls; for every timeout a run that stays non-terminal
\* eventually ends the wait in TimeoutError.
C1_StuckRunTimesOut ==
    /\ []C1_ScenarioOutcome
    /\ StuckRun ~> (w_pc = "timeout")

C1_Witness ==
    /\ StuckRun /\ PollScenario
    /\ w_pc = "timeout"
    /\ w_polls >= 3

\* C2: a run returned by wait_on_response has a terminal status; a run last
\* observed as queued, in_progress or requires_action is never returned.
C2_ReturnedIsTerminal ==
    w_pc = "returned" => w_status \in Terminal

C2_Witness ==
    /\ w_pc = "returned"
    /\ w_obj = "retrieved"
    /\ w_polls >= 2

(***************************************************************************)
(* Properties of the chat and analyze request paths.                       *)
(***************************************************************************)
\* The handler has stopped waiting on the run: wait_on_run has returned and
\* the handler goes on to check the run and read the thread's messages
StoppedWaiting == c_pc \in {"waited", "reading", "done"}

\* C3: on the chat and analyze paths a run observed in requires_action is
\* polled again like queued and in_progress; the handler never stops
\* waiting, nor reads the result, while the last observed status of the
\* run is requires_action.
C3_AsStated ==
    StoppedWaiting => c_status # "requires_action"

\* The detail of the response holds this text
Carries(resp, txt) == \E i \in 1..Len(resp.detail) : resp.detail[i] = txt

\* The request has ended and the run it waited on was last observed with
\* this status
EndedWith(status) == c_pc = "done" /\ c_status = status

\* C13: when the run ends cancelled or expired the chat and analyze handlers
\* report a failure carrying that status and never return a normal response.
C13_AsStated ==
    \A st \in {"cancelled", "expired"} :
        EndedWith(st) => (c_resp.kind = "error" /\ Carries(c_resp, st))

\* C14: when a run of a chat turn reaches failed with last_error code
\* server_error the turn ends with an error whose detail contains that
\* code; no message text of the thread is returned, and the messages are
\* never read for a failed run.
C14_FailedRunSurfacesError ==
    /\ c_pc = "reading" => c_status # "failed"
    /\ (c_kind = "chat" /\ EndedWith("failed") /\ c_last_error = "server_error") =>
         /\ c_resp.kind = "error"
         /\ c_resp.code = 500
         /\ Carries(c_resp, "server_error")
         /\ c_resp.text = "" /\ c_resp.role = "none" /\ c_resp.thread = "none"

C14_Witness ==
    /\ c_kind = "chat" /\ EndedWith("failed") /\ c_last_error = "server_error"
    /\ c_thread = "t_old"
    /\ Len(c_msgs) = 3
    /\ c_resp.kind = "error"

\* C15: when a run of analyze reaches failed with a rate-limit-flavored
\* last_error the caller receives HTTP 429 with guidance to retry later,
\* distinct from the HTTP 500 it receives for a generic failed run.
C15_AsStated ==
    (c_kind = "analyze" /\ EndedWith("failed")) =>
        c_resp.code = (IF c_last_error = "rate_limit_exceeded" THEN 429 ELSE 500)

\* C16: send-chat-turn and analyze run against the session id supplied with
\* the request and return it unchanged; a new session is created, and its
\* id returned, only when none is supplied.
C16_AsStated ==
    /\ c_pc \notin {"idle", "start"} =>
         c_thread = (IF c_req_thread # "none" THEN c_req_thread ELSE "t_new")
    /\ (c_pc = "done" /\ c_resp.kind = "ok") =>
         c_resp.thread = (IF c_req_thread # "none" THEN c_req_thread ELSE "t_new")

(***************************************************************************)
(* Properties of retry_with_exponential_backoff.                           *)
(***************************************************************************)
RECURSIVE Pow(_, _)
Pow(b, n) == IF n = 0 THEN 1 ELSE b * Pow(b, n - 1)

\* The delay computed for the retry numbered attempt
ComputedDelay(attempt) ==
    r_cfg.initial_delay * Pow(r_cfg.exponential_base, attempt)

\* An error whose text indicates a rate limit: it contains the
\* rate_limit_exceeded marker (in either case) or 429
RateLimitFlavored(e) ==
    e.marker \in {"rate_limit_exceeded", "RATE_LIMIT_EXCEEDED", "429"}

\* The 'try again in <n>ms' value an error carries, 0 when it carries none
HintOf(e) == IF e.hint.form = "ms" THEN e.hint.n ELSE 0

NonDecreasing(s) == \A k \in 1..(Len(s) - 1) : s[k] <= s[k + 1]

\* max_retries = 3 and the call has ended with a rate-limit error raised to
\* the caller.  The wrapper retries only after a rate-limit error and a
\* normal return ends the call, so every attempt of such a call has failed
\* with a rate-limit error.
AllRateLimited ==
    /\ r_cfg.max_retries = 3
    /\ r_pc = "raised"
    /\ RateLimitFlavored(r_err)

\* C4 as stated: 4 attempts, exactly 3 sleeps of non-decreasing
\* durations, then the final attempt's error is re-raised.
C4_AsStated ==
    AllRateLimited =>
        /\ r_calls = 4
        /\ Len(r_sleeps) = 3
        /\ NonDecreasing(r_sleeps)
        /\ r_out = [kind |-> "raised", err |-> r_err]

\* C4 (amended): with max_retries = 3 and every attempt failing with a
\* rate-limit error the operation is attempted 4 times, the wrapper sleeps
\* exactly 3 times, each sleep lasting at least the computed delay
\* initial_delay * exponential_base^attempt, and the final attempt's error
\* is re-raised; a sleep is shorter than the one before it only when a
\* retry hint lengthened the earlier one beyond its computed delay.
C4_ThreeSleepsThenReraise ==
    AllRateLimited =>
        /\ r_calls = 4
        /\ Len(r_sleeps) = 3
        /\ \A k \in 1..Len(r_sleeps) : r_sleeps[k] >= ComputedDelay(k - 1)
        /\ \A k \in 1..(Len(r_sleeps) - 1) :
             r_sleeps[k + 1] < r_sleeps[k] => r_sleeps[k] > ComputedDelay(k - 1)
        /\ r_out = [kind |-> "raised", err |-> r_err]

C4_Witness ==
    /\ AllRateLimited
    /\ Len(r_sleeps) = 3
    /\ ~NonDecreasing(r_sleeps)

\* C5: an attempt that fails with an error that is not rate-limit-flavored
\* ends the call at once with that error re-raised; when it is the first
\* attempt the operation has been invoked once and nothing has been slept,
\* whatever max_retries is.
C5_OtherErrorRaisedAtOnce ==
    (r_err # NoErr /\ ~RateLimitFlavored(r_err)) =>
        /\ r_pc = "raised"
        /\ r_out = [kind |-> "raised", err |-> r_err]
        /\ Len(r_sleeps) = r_attempt
        /\ r_attempt = 0 => (r_calls = 1 /\ r_sleeps = <<>>)

C5_Witness ==
    /\ r_pc = "raised"
    /\ ~RateLimitFlavored(r_err)
    /\ r_err.hint.form = "ms"
    /\ r_calls = 1
    /\ r_cfg.max_retries = 3

\* C6: the sleep of the retry numbered attempt lasts
\* max(initial_delay * exponential_base^attempt, hint), hint being the
\* 'try again in <n>ms' value of that attempt's error (0 when absent), so
\* it is never shorter than the computed exponential delay.
C6_SleepIsMaxOfDelayAndHint ==
    /\ r_pc = "sleeping" =>
         /\ r_wait = Max(ComputedDelay(r_attempt), HintOf(r_err))
         /\ r_wait >= ComputedDelay(r_attempt)
    /\ \A k \in 1..Len(r_sleeps) : r_sleeps[k] >= ComputedDelay(k - 1)

C6_Witness ==
    /\ r_pc = "sleeping"
    /\ r_attempt = 2
    /\ HintOf(r_err) > ComputedDelay(r_attempt)
    /\ r_wait = HintOf(r_err)

(***************************************************************************)
(* Properties of parse_response_output.                                    *)
(***************************************************************************)
Returned == p_pc = "done" /\ ~p_result.raised

\* The raw result carries a top-level output_text value and nothing else:
\* no content blocks and no top-level output files
OnlyOutputText(response) ==
    /\ response.output_text.k = "val"
    /\ ~Truthy(response.output)
    /\ response.output_files.k \in {"absent", "val"}
    /\ response.output_files.v = <<>>

RECURSIVE ItemsOf(_)
ItemsOf(blocks) ==
    IF blocks = <<>> THEN <<>>
    ELSE (IF Head(blocks).content.k = "val" THEN Head(blocks).content.v ELSE <<>>)
         \o ItemsOf(Tail(blocks))
AllItems(response) ==
    IF response.output.k = "val" THEN ItemsOf(response.output.v) ELSE <<>>

\* The sub-object through which an item of a file or image type refers to
\* its file
RefOf(item) ==
    CASE item.type = "file_path" -> item.file_path
      [] item.type = "image_file" -> item.image_file
      [] item.type \in {"output_file", "file"} -> item.file
      [] item.type \in {"output_image", "image"} -> item.image
      [] OTHER -> AbsR

\* Nothing in the raw result is malformed other than by a missing file_id:
\* every block has a content list, no reference object is null, and
\* output_files is not null
WellFormed(response) ==
    /\ response.output_files.k # "none"
    /\ response.output.k = "val" =>
         \A i \in 1..Len(response.output.v) :
             response.output.v[i].content.k # "none"
    /\ \A i \in 1..Len(AllItems(response)) :
         RefOf(AllItems(response)[i]).k # "none"

\* C8: a file or image reference item whose reference object has no file_id
\* is dropped and parse_response_output does not raise; every annotation
\* returned has a non-empty, non-null file_id.
C8_AsStated ==
    (p_pc = "done" /\ WellFormed(p_response)) =>
        /\ ~p_result.raised
        /\ \A i \in 1..Len(p_result.annotations) :
             Truthy(p_result.annotations[i].file_id)

\* Every annotation of the raw result is an inline citation: no item refers
\* to a file of its own and there are no top-level output files
OnlyCitations(response) ==
    /\ ~Truthy(response.output_files)
    /\ \A i \in 1..Len(AllItems(response)) :
         RefOf(AllItems(response)[i]).k = "absent"

\* The file id ends in an image extension, compared without regard to case
IsImageId(fid) == \E suf \in ImageSuffixes : EndsWith(LowerStr(fid), suf)

\* C9: the annotation emitted for an inline citation with a file id has kind
\* image_file if and only if the file id ends in .png, .jpg, .jpeg, .gif,
\* .svg or .webp compared case-insensitively, and kind file_path otherwise.
C9_AsStated ==
    (Returned /\ OnlyCitations(p_response)) =>
        \A i \in 1..Len(p_result.annotations) :
            LET ann == p_result.annotations[i]
            IN /\ ann.type \in {"image_file", "file_path"}
               /\ ann.type = "image_file" <=> IsImageId(ann.file_id.v)

\* The text value of a content item: the first non-empty of the value of
\* its nested text object, its output_text and its value; nothing for an
\* item that is not of a textual type or holds none of them
FragmentOf(item) ==
    LET nested == IF item.text.k = "obj" /\ item.text.value.k = "val"
                  THEN item.text.value.v ELSE <<>>
        direct == IF item.output_text.k = "val" /\ item.output_text.v # <<>>
                  THEN item.output_text.v
                  ELSE IF item.value.k = "val" THEN item.value.v ELSE <<>>
    IN IF item.type \notin TextTypes THEN <<>>
       ELSE IF nested # <<>> THEN nested ELSE direct

RECURSIVE Fragments(_)
Fragments(items) ==
    IF items = <<>> THEN <<>>
    ELSE FragmentOf(Head(items)) \o Fragments(Tail(items))

ExpectedText(response) ==
    (IF response.output_text.k = "val" THEN response.output_text.v ELSE <<>>)
    \o Fragments(AllItems(response))

RefId(item) ==
    LET ref == RefOf(item).v
    IN IF item.type \in {"file_path", "image_file"} \/ ref.file_id.k # "absent"
       THEN ref.file_id ELSE ref.id

\* Every reference object of the raw result carries a file id
RefsHaveIds(response) ==
    \A i \in 1..Len(AllItems(response)) :
        LET item == AllItems(response)[i]
        IN RefOf(item).k = "absent" \/ (RefOf(item).k = "val" /\ Truthy(RefId(item)))

\* The id of a citation or of an output_files entry: the first non-empty of
\* the two attributes, <<>> when there is none
FirstId(a, b) == IF Truthy(a) THEN a.v ELSE IF Truthy(b) THEN b.v ELSE <<>>

RECURSIVE CitedIds(_)
CitedIds(anns) ==
    IF anns = <<>> THEN <<>>
    ELSE LET a == Head(anns)
             fid == FirstId(a.file_id, a.id)
         IN (IF a.type \in CitationTypes /\ fid # <<>> THEN <<fid>> ELSE <<>>)
            \o CitedIds(Tail(anns))

RECURSIVE ItemIds(_)
ItemIds(items) ==
    IF items = <<>> THEN <<>>
    ELSE LET item == Head(items)
         IN (IF RefOf(item).k = "val" THEN <<RefId(item).v>> ELSE <<>>)
            \o (IF item.annotations.k = "val"
                THEN CitedIds(item.annotations.v) ELSE <<>>)
            \o ItemIds(Tail(items))

RECURSIVE OutputFileIds(_)
OutputFileIds(files) ==
    IF files = <<>> THEN <<>>
    ELSE LET fid == FirstId(Head(files).id, Head(files).file_id)
         IN (IF fid # <<>> THEN <<fid>> ELSE <<>>) \o OutputFileIds(Tail(files))

ExpectedIds(response) ==
    ItemIds(AllItems(response)) \o OutputFileIds(response.output_files.v)

ReturnedIds == [i \in 1..Len(p_result.annotations) |->
                    p_result.annotations[i].file_id.v]

\* C11: the annotations returned are one entry per file or image reference
\* and per inline citation that has a file id, in document order, followed
\* by one entry per output_files entry that has an id; nothing is merged or
\* deduplicated, so a file referenced inline and in output_files appears
\* twice.
C11_OneEntryPerReferenceInOrder ==
    (Returned /\ RefsHaveIds(p_response)) =>
        /\ ReturnedIds = ExpectedIds(p_response)
        /\ \A i \in 1..Len(p_result.annotations) :
             p_result.annotations[i].file_id.k = "val"

C11_Witness ==
    /\ Returned /\ RefsHaveIds(p_response)
    /\ Len(p_result.annotations) >= 4
    /\ \E i, j \in 1..Len(p_result.annotations) :
         /\ i < j
         /\ p_result.annotations[i].file_id = p_result.annotations[j].file_id
         /\ p_result.annotations[i].type = "image_file"
         /\ j = Len(p_result.annotations)

\* C12: parse_response_output never aborts because of a malformed or
\* incomplete node (a block whose content is null, an unknown item type, a
\* null output_files collection): the call returns normally.
C12_AsStated ==
    (p_pc = "done" /\ RefsHaveIds(p_response)) => ~p_result.raised

(***************************************************************************)
(* Properties of ResponsesClient.__init__.                                 *)
(***************************************************************************)
\* C17: constructing ResponsesClient with a remote client that has no
\* conversation support fails at once and produces no object, so no method
\* is ever invoked on an unsupported backend; with a conversation-capable
\* client the construction succeeds.
C17_UnsupportedBackendFailsAtConstruction ==
    /\ k_pc = "raised" => (~k_client.conversations /\ ~k_self.made)
    /\ k_pc = "constructed" =>
         (k_client.conversations /\ k_self.made /\ k_self.client = k_client)
    /\ k_calls # <<>> => k_client.conversations
    /\ k_self.made => k_self.client.conversations

C17_Witness ==
    /\ k_pc = "raised"
    /\ ~k_client.conversations
    /\ k_calls = <<>>

(***************************************************************************)
(* Properties of download_container_file.                                  *)
(***************************************************************************)
\* The string an attribute holds, empty when it is absent or None
StrOf(a) == IF a.k = "val" THEN a.v ELSE <<>>

RECURSIVE FirstNonEmpty(_)
FirstNonEmpty(candidates) ==
    IF candidates = <<>> THEN <<>>
    ELSE IF Head(candidates) # <<>> THEN Head(candidates)
    ELSE FirstNonEmpty(Tail(candidates))

\* The candidates for the download name, in the order of the claim
NameCandidates ==
    <<Basename(StrOf(d_info.path)), StrOf(d_info.filename), StrOf(d_info.name),
      StrOf(d_data.filename), d_file_id>>

Downloaded == d_pc = "done" /\ d_resp.kind = "ok"

\* C18: the download name is the first non-empty of the base name of the
\* metadata path, the metadata filename, the metadata name, the filename of
\* the content object and the raw file id; the content type is guessed from
\* that name, application/octet-stream when nothing is guessed.  Metadata
\* with path /sandbox/out/chart.png and no filename yields chart.png and
\* image/png.
C18_DownloadNamePriority ==
    Downloaded =>
        /\ d_resp.filename = FirstNonEmpty(NameCandidates)
        /\ d_resp.filename # <<>>
        /\ d_resp.content_type =
             (IF GuessType(d_resp.filename) = "none"
              THEN "application/octet-stream" ELSE GuessType(d_resp.filename))
        /\ (d_info.path = Path_chart /\ d_info.filename.k # "val") =>
             /\ d_resp.filename = <<"c", "h", "a", "r", "t", ".", "p", "n", "g">>
             /\ d_resp.content_type = "image/png"

C18_Witness ==
    /\ Downloaded
    /\ d_info.path = Path_chart /\ d_info.filename.k = "absent"
    /\ d_info.name.k = "val"
    /\ d_resp.content_type = "image/png"

\* C19: when the metadata or content lookup of fetch-file fails, whatever
\* the reason, the caller receives a NotFound-style client error (a 4xx
\* status, not a server error) whose detail preserves the remote error
\* text; the outcome does not depend on that text.
C19_AsStated ==
    (d_pc = "done" /\ d_remote # "none") =>
        /\ d_resp.kind = "error"
        /\ d_resp.code \in 400..499
        /\ \E i \in 1..Len(d_resp.detail) : d_resp.detail[i] = d_err

(***************************************************************************)
(* Properties of concurrent requests.                                      *)
(***************************************************************************)
\* C20: while one request waits between poll attempts the other requests
\* make progress: with two concurrent chat requests A and B where A's run
\* never completes, B still receives its response.
C20_AsStated ==
    (t_env["A"] = "stuck" /\ t_pc["B"] = "arrived") ~> (t_pc["B"] = "done")

(***************************************************************************)
(* Properties of a whole chat turn.                                        *)
(***************************************************************************)
\* The polls of wait_on_run saw queued, then in_progress, then completed,
\* and the completed run left one text block 'Result: 42' and one
\* image-file block for file f1
PollsSawCompletion == c_seen = <<"queued", "in_progress", "completed">>
ResultScenario ==
    /\ c_kind = "chat"
    /\ PollsSawCompletion
    /\ c_msgs[1].content = Content_result_42

ReturnedResult ==
    /\ c_pc = "done"
    /\ c_resp.kind = "ok"
    /\ c_resp.thread = c_thread
    /\ c_req_thread # "none" => c_resp.thread = c_req_thread
    /\ c_resp.message = Str_result_42
    /\ c_resp.annotations = <<[type |-> "image_file", file_id |-> Fid_f1]>>

\* C21: a chat turn whose run is observed as queued, then in_progress, then
\* completed on successive polls eventually returns the session id with
\* the normalized output of the completed result: for one text block
\* 'Result: 42' and one image-file block for f1 the text is exactly
\* 'Result: 42' and the annotations are exactly one image annotation for f1.
C21_CompletedRunReturnsResult == ResultScenario ~> ReturnedResult

C21_Witness == ResultScenario /\ ReturnedResult /\ c_polls = 3

(***************************************************************************)
(* Properties of the use of the retry wrapper.                             *)
(***************************************************************************)
\* C22: a poll refresh of wait_on_response that fails with a transient
\* error does not abort the wait: the fetch is retried, and the wait still
\* ends by returning the terminal run or by the deadline.
C22_AsStated == w_pc # "error"

\* the text of the error is rate-limit-flavored: it contains
\* 'rate_limit_exceeded' or '429'
RateLimitText(err) == err = "rate_limit_exceeded 429"

\* C23: ContainerFileService.fetch is wrapped by the retry wrapper: a
\* rate-limit-flavored failure of the metadata or content retrieval is
\* retried before any error reaches the caller of fetch-file.
C23_AsStated ==
    (d_pc = "done" /\ d_resp.kind = "error" /\ RateLimitText(d_err)) =>
        \/ d_remote = "metadata" /\ d_calls.metadata > 1
        \/ d_remote = "content" /\ d_calls.content > 1

\* C24: a chat or analyze request does not wait forever: once it waits on
\* its run it eventually ends, with a Timeout error if the run stays queued
\* or in_progress forever.
C24_AsStated == (c_pc = "waiting") ~> (c_pc = "done")

(***************************************************************************)
(* Further properties of parse_response_output.                            *)
(***************************************************************************)
\* the container id a block has itself, None for a block without one
OwnContainer(block) == GetAttr(block.container_id)

\* the number of annotations emitted for the items of one block
EmittedFor(block) ==
    Len(ParseItems(block.content.v, 1, NoneS, NoneS,
                   [raised |-> FALSE, chunks |-> <<>>, anns |-> <<>>]).anns)

\* for every annotation emitted for the blocks, in order, the container id
\* of the block whose item it was emitted for
RECURSIVE OwnContainers(_, _)
OwnContainers(blocks, i) ==
    IF i > Len(blocks) THEN <<>>
    ELSE [k \in 1..EmittedFor(blocks[i]) |-> OwnContainer(blocks[i])]
         \o OwnContainers(blocks, i + 1)

\* C25: every annotation emitted for an item inside a content block carries
\* the container id of that same block; a block without a container id
\* never passes on the container id of an earlier block.
C25_AsStated ==
    (Returned /\ Truthy(p_response.output)) =>
        LET own == OwnContainers(p_response.output.v, 1)
        IN \A k \in 1..Len(own) :
               p_result.annotations[k].container_id = own[k]

\* The text value a textual item holds, whichever sub-field holds it: the
\* text sub-field as a bare string, else as FragmentOf takes it from the
\* nested text object, output_text or value
HeldText(item) ==
    IF item.type \in TextTypes /\ item.text.k = "str" /\ item.text.value.v # <<>>
    THEN item.text.value.v
    ELSE FragmentOf(item)

RECURSIVE HeldTexts(_)
HeldTexts(items) ==
    IF items = <<>> THEN <<>>
    ELSE HeldText(Head(items)) \o HeldTexts(Tail(items))

\* C26: every content item of a textual type adds its text value to the
\* returned text whichever sub-field holds it, a nested object with a value
\* or a bare string value; an item with no extractable value adds nothing
\* and raises nothing.
C26_AsStated ==
    Returned =>
        p_result.text =
            (IF p_response.output_text.k = "val" THEN p_response.output_text.v
             ELSE <<>>) \o HeldTexts(AllItems(p_response))

(***************************************************************************)
(* Further properties of retry_with_exponential_backoff.                   *)
(***************************************************************************)
\* C27: whenever the wrapper raises, the error raised is the one produced
\* by the most recent attempt of the operation; the wrapper returns
\* normally only when an attempt returned normally, and then it returns
\* that attempt's result.
C27_RaisesLatestReturnsResult ==
    /\ r_pc = "raised" =>
         /\ r_out.kind = "raised"
         /\ r_last.kind = "raised"
         /\ r_out.err = r_last.err
         /\ r_ret = "-"
    /\ (r_pc = "returned" \/ r_out.kind = "returned" \/ r_ret # "-") =>
         /\ r_pc = "returned"
         /\ r_out.kind = "returned"
         /\ r_last.kind = "returned"
         /\ r_ret = r_last.val

\* the wrapper raised after a retry, and the last error differs from the
\* one of an attempt before it
C27_Witness ==
    /\ r_pc = "raised"
    /\ r_calls = 3
    /\ r_out.err.marker = "none"
    /\ Len(r_sleeps) = 2

\* C28: no retry state is shared across calls of a wrapped function: every
\* call, sequential or interleaved with other calls, starts with attempt
\* count 0 and delay initial_delay, whatever retries earlier or concurrent
\* calls performed; a step of one call changes neither the decorator
\* arguments nor the attempt count and delay of another call.
C28_NoSharedRetryState ==
    [][\A c \in Callers :
          /\ (s_pc[c] = "idle" /\ s_pc'[c] = "calling") =>
                 (s_attempt'[c] = 0 /\ s_delay'[c] = s_cfg.initial_delay)
          /\ s_pc'[c] = s_pc[c] =>
                 (s_attempt'[c] = s_attempt[c] /\ s_delay'[c] = s_delay[c])
          /\ s_cfg' = s_cfg]_vars

\* a call of X starts afresh although an earlier call of X has slept and
\* left a longer delay, while a call of Y is in the middle of its retries
C28_Witness ==
    /\ s_pc["X"] = "calling" /\ s_attempt["X"] = 0
    /\ s_delay["X"] = s_cfg.initial_delay
    /\ s_done["X"] >= 1 /\ s_slept["X"]
    /\ s_pc["Y"] = "sleeping" /\ s_attempt["Y"] >= 1
    /\ s_delay["Y"] > s_cfg.initial_delay

C30_AsStated ==
    /\ a_pc = "created" => a_db = 0
    /\ a_creates <= 1
    /\ a_pc = "up" => a_db = a_id

\* the call of the wrapped function has ended, by a return or by a raise
CallEnded == r_pc \in {"returned", "raised"}

\* C31: for every max_retries >= 0 and every sequence of outcomes of the
\* operation, one call of the wrapped function invokes the operation at
\* least once and at most max_retries + 1 times and sleeps at most
\* max_retries times; the number of sleeps of the call is exactly the number
\* of invocations minus one (while the wrapper is between a sleep and the
\* invocation that follows it, the two numbers are equal).
C31_InvocationsAndSleepsBounded ==
    /\ r_calls <= r_cfg.max_retries + 1
    /\ Len(r_sleeps) <= r_cfg.max_retries
    /\ CallEnded =>
         /\ r_calls >= 1
         /\ Len(r_sleeps) = r_calls - 1
    /\ r_pc = "sleeping" => Len(r_sleeps) = r_calls - 1
    /\ r_pc = "calling" => Len(r_sleeps) = r_calls

\* every retry is used up: max_retries + 1 invocations, max_retries sleeps
C31_Witness ==
    /\ CallEnded
    /\ r_cfg.max_retries = 3
    /\ r_calls = 4
    /\ Len(r_sleeps) = 3

\* C32: the message returned by a successful turn is always taken from an
\* assistant message produced by that turn's run; the handler never returns
\* the user's own prompt, or an older message, as the response, whatever
\* status the run ended in.
C32_AsStated ==
    (c_pc = "done" /\ c_resp.kind = "ok") =>
        (c_resp.role = "assistant" /\ c_resp.run = "this")

(***************************************************************************)
(* Further properties of wait_on_response.                                 *)
(***************************************************************************)
\* the wait has ended: by the return, by TimeoutError or by an exception of
\* the retrieve call
WaitEnded == w_pc \in {"returned", "timeout", "error"}

\* C33: wait_on_response called with a run whose status is already terminal
\* returns that same run at once, with zero retrieve calls and zero sleeps,
\* for every timeout value, 0 included; and in every execution the number
\* of sleeps equals the number of retrieve calls (one more sleep only while
\* the retrieve call that follows it has not been made yet).
C33_TerminalRunReturnedAtOnce ==
    /\ (w_obj = "given" /\ w_status \in Terminal) =>
         /\ w_pc \in {"check", "returned"}
         /\ w_polls = 0 /\ w_sleeps = 0
         /\ w_clock = w_start
    /\ WaitEnded => w_sleeps = w_polls
    /\ w_pc \in {"check", "sleeping"} => w_sleeps = w_polls
    /\ w_pc = "retrieving" => w_sleeps = w_polls + 1

C33_Witness ==
    /\ w_pc = "returned"
    /\ w_obj = "given"
    /\ w_status = "failed"
    /\ w_timeout = 0
    /\ w_polls = 0 /\ w_sleeps = 0

====
